---------------------------- MODULE Spec2Model ----------------------------
(***************************************************************************)
(* A model of the riakng transport layer (riakng/core/pbc.py and           *)
(* riakng/core/http.py): the binary transport's send retry loop, frame     *)
(* codec and get(), and the HTTP transport's request/response mapping.     *)
(*                                                                         *)
(* Text is modelled as sequences of one-character strings wherever the     *)
(* code inspects characters (link headers, index field names); bytes are   *)
(* the integers 0..255.                                                    *)
(***************************************************************************)
EXTENDS Integers, Sequences, FiniteSets, TLC

VARIABLES
    \* ---- PBCTransport (pbc.py) ----
    max_attempt,   \* self._max_attempt
    sock,          \* self._socket: "None" or "open"
    pc,            \* position of the caller inside the current operation
    op,            \* the operation in progress: "none", "ping" or "get"
    packet,        \* the request frame handed to send_packet
    idx,           \* the next value the for loop of send_packet draws from xrange
    attempt,       \* send_packet's local `attempt`
    e,             \* send_packet's local `e`: "None" or the errno of a socket.error
    hist,          \* outcomes of the attempts of the current send_packet call
    sp,            \* send_packet's outcome: "none", "running", "return" or "raise"
    sent,          \* number of successful sendall calls of the current operation
    reply,         \* the server's reply to the delivered request
    result,        \* outcome of the current operation
    fds,           \* descriptors the transport has opened and not closed
    fresh,         \* per attempt of the current send_packet call: did connect()
                   \* find a socket held, and did it open one
    recvd,         \* number of recv_packet calls of the current operation
    rp,            \* what recv_packet was given and what it did
    life,          \* the last connect()/close() call made by the caller
    unread,        \* bytes that have reached self._socket and were not read
    \* ---- frame codec loop-back ----
    c_code, c_payload, c_frame, c_dels, c_recv, c_out, c_pc,
    \* ---- HTTPTransport against a store (http.py) ----
    store,         \* the server: key -> sequence of stored sibling values
    assigned,      \* number of keys the server has generated
    gone,          \* keys whose last write operation was a delete that returned True
    h_op,          \* the last call: operation, transport and arguments
    h_resp,        \* the response the server gave to the last call
    h_result,      \* outcome of the last call
    h_pc,          \* "idle", or "returned" while the caller holds the outcome
    \* ---- Link header round trip ----
    l_links, l_header, l_parsed, l_pc,
    \* ---- link walk over a multipart body ----
    w_phases,      \* what the server found: per phase, its documents in order
    w_resp,        \* the response to the walk_link request
    w_result,      \* outcome of walk_link
    w_pc,          \* "start", "served", "parsing", "walked"
    w_stack,       \* the running calls of _parse_linked_object_part, the
                   \* innermost last: each with its body, content, start, parts
    w_scan,        \* the last loop iteration: start before it and after it
    \* ---- index entries through put()'s headers and _parse_object ----
    i_indexes, i_headers, i_parsed, i_pc,
    i_issued       \* HTTP requests put() has issued with its index headers

pbcVars   == <<max_attempt, sock, pc, op, packet, idx, attempt, e, hist, sp, sent,
               reply, result, fds, fresh, recvd, rp, life, unread>>
codecVars == <<c_code, c_payload, c_frame, c_dels, c_recv, c_out, c_pc>>
httpVars  == <<store, assigned, gone, h_op, h_resp, h_result, h_pc>>
linkVars  == <<l_links, l_header, l_parsed, l_pc>>
walkVars  == <<w_phases, w_resp, w_result, w_pc, w_stack, w_scan>>
ixVars    == <<i_indexes, i_headers, i_parsed, i_pc, i_issued>>
vars      == <<pbcVars, codecVars, httpVars, linkVars, walkVars, ixVars>>

-----------------------------------------------------------------------------
(* Bounds of the model. *)

\* largest configured max_attempt explored
MaxAttempt == 3
\* most unread bytes a socket may hold when the caller goes on using it
MaxUnread == 5
\* longest body handed to the multipart parser directly
MaxBody == 6
\* longest payload of the codec loop-back
MaxPayload == 2
\* largest number of links handed to put()
MaxLinks == 2
\* largest number of values the server holds, over all keys
MaxStored == 2
\* largest number of keys the server generates
MaxAssigned == 1

\* phases of a link walk, and documents found by one phase
MaxPhases == 2

MaxWalkDocs == 2

\* index entries given to one put()
MaxIndexes == 2

-----------------------------------------------------------------------------
(* Generic helpers. *)

Min(a, b) == IF a < b THEN a ELSE b

Take(s, n) == SubSeq(s, 1, Min(n, Len(s)))

Drop(s, n) == SubSeq(s, Min(n, Len(s)) + 1, Len(s))

SeqsUpTo(S, n) == UNION {[1..k -> S] : k \in 0..n}

-----------------------------------------------------------------------------
(* pbc.py: message codes. *)

ERROR_RESP == 0
PING_REQ == 1
PING_RESP == 2
GET_CLIENT_ID_REQ == 3
GET_CLIENT_ID_RESP == 4
SET_CLIENT_ID_REQ == 5
SET_CLIENT_ID_RESP == 6
GET_SERVER_INFO_REQ == 7
GET_SERVER_INFO_RESP == 8
GET_REQ == 9
GET_RESP == 10
PUT_REQ == 11
PUT_RESP == 12
DEL_REQ == 13
DEL_RESP == 14
LIST_BUCKETS_REQ == 15
LIST_BUCKETS_RESP == 16
LIST_KEYS_REQ == 17
LIST_KEYS_RESP == 18
GET_BUCKET_REQ == 19
GET_BUCKET_RESP == 20
SET_BUCKET_REQ == 21
SET_BUCKET_RESP == 22
MAPRED_REQ == 23
MAPRED_RESP == 24
INDEX_REQ == 25
INDEX_RESP == 26
SEARCH_QUERY_REQ == 27
SEARCH_QUERY_RESP == 28

\* a tuple that also counts a timeout as "connection dead"
CONN_CLOSED_ERRORS_with_timeout ==
    {"EHOSTUNREACH", "ECONNRESET", "EBADF", "EPIPE", "ETIMEDOUT"}

\* pbc.py CONN_CLOSED_ERRORS: the socket errors that mean "connection dead"
CONN_CLOSED_ERRORS == {"EHOSTUNREACH", "ECONNRESET", "EBADF", "EPIPE"}

\* socket errors send_packet does not retry (any errno outside the tuple)
OtherSocketErrors == {"ETIMEDOUT", "ECONNREFUSED"}

SocketErrors == CONN_CLOSED_ERRORS \cup OtherSocketErrors

\* a table that also lists the delete request code, as a no-payload code
RESPCODE_TO_CLASS_with_del_req ==
    (ERROR_RESP :> "RpbErrorResp") @@
    (PING_RESP :> "None") @@
    (GET_SERVER_INFO_RESP :> "RpbGetServerInfoResp") @@
    (GET_CLIENT_ID_RESP :> "RpbGetClientIdResp") @@
    (SET_CLIENT_ID_RESP :> "None") @@
    (GET_RESP :> "RpbGetResp") @@
    (PUT_RESP :> "RpbPutResp") @@
    (DEL_RESP :> "None") @@
    (LIST_KEYS_RESP :> "RpbListKeysResp") @@
    (LIST_BUCKETS_RESP :> "RpbListBucketsResp") @@
    (GET_BUCKET_RESP :> "RpbGetBucketResp") @@
    (SET_BUCKET_RESP :> "None") @@
    (MAPRED_RESP :> "RpbMapRedResp") @@
    (INDEX_RESP :> "RpbIndexResp") @@
    (SEARCH_QUERY_RESP :> "RpbSearchQueryResp") @@
    (DEL_REQ :> "None")

\* RESPCODE_TO_CLASS: response code -> protobuf class name, "None" for no payload
RESPCODE_TO_CLASS ==
    (ERROR_RESP :> "RpbErrorResp") @@
    (PING_RESP :> "None") @@
    (GET_SERVER_INFO_RESP :> "RpbGetServerInfoResp") @@
    (GET_CLIENT_ID_RESP :> "RpbGetClientIdResp") @@
    (SET_CLIENT_ID_RESP :> "None") @@
    (GET_RESP :> "RpbGetResp") @@
    (PUT_RESP :> "RpbPutResp") @@
    (DEL_RESP :> "None") @@
    (LIST_KEYS_RESP :> "RpbListKeysResp") @@
    (LIST_BUCKETS_RESP :> "RpbListBucketsResp") @@
    (GET_BUCKET_RESP :> "RpbGetBucketResp") @@
    (SET_BUCKET_RESP :> "None") @@
    (MAPRED_RESP :> "RpbMapRedResp") @@
    (INDEX_RESP :> "RpbIndexResp") @@
    (SEARCH_QUERY_RESP :> "RpbSearchQueryResp")

-----------------------------------------------------------------------------
(* pbc.py: the frame codec. *)

\* struct.pack("!i", n): n as 4 big-endian bytes, two's complement
Pack32(n) ==
    << (n \div 16777216) % 256, (n \div 65536) % 256, (n \div 256) % 256, n % 256 >>

\* the 4 bytes read least significant first
Unpack32_little_endian(b) ==
    (IF b[4] >= 128 THEN b[4] - 256 ELSE b[4]) * 16777216
        + b[3] * 65536 + b[2] * 256 + b[1]

\* struct.unpack("!i", b): 4 big-endian bytes as a signed 32-bit integer
Unpack32(b) ==
    (IF b[1] >= 128 THEN b[1] - 256 ELSE b[1]) * 16777216
        + b[2] * 65536 + b[3] * 256 + b[4]

\* encode_message with the length prefix counting the payload only
encode_message_payload_length(code, s) == Pack32(Len(s)) \o <<code>> \o s

\* encode_message(code, message): s is message.SerializeToString(), or the
\* empty string when message is None
encode_message(code, s) == Pack32(1 + Len(s)) \o <<code>> \o s


\* Outcomes of a call: a normal return of a value, or a raised exception.
NoResult == [kind |-> "none"]

Return(v) == [kind |-> "return", value |-> v]

Raise(exc, status, reason) ==
    [kind |-> "raise", exc |-> exc, status |-> status, reason |-> reason]

NoneValue == [type |-> "None"]

BoolValue(b) == [type |-> "bool", b |-> b]

\* recv(length) on a socket whose peer will still send `stream` and has `avail`
\* bytes readable now; the peer has closed once `stream` is exhausted.
\* exc is "" unless recv raises; sk is self._socket afterwards.
recv(stream, length, avail, sk) ==
    IF sk = "None"
    THEN [exc |-> "RiakngError", res |-> <<>>, rest |-> stream, sk |-> sk]
    ELSE LET res == Take(stream, Min(length, avail))
         IN  [exc |-> "", res |-> res, rest |-> Drop(stream, Len(res)),
              sk |-> IF Len(res) = 0 /\ length > 0 THEN "None" ELSE sk]

\* the bytes readable at the next recv: the head of the delivery plan, or
\* everything that is left once the plan is used up
Avail(stream, dels) == IF dels = <<>> THEN Len(stream) ELSE Head(dels)

RestDels(dels) == IF dels = <<>> THEN <<>> ELSE Tail(dels)

\* the while loop of recv_packet; every read asks for `length` bytes
RECURSIVE recv_loop(_, _, _, _, _)
recv_loop(pkt, length, stream, dels, sk) ==
    IF ~(Len(pkt) < length)
    THEN [exc |-> "", packet |-> pkt, rest |-> stream, sk |-> sk]
    ELSE LET r == recv(stream, length, Avail(stream, dels), sk)
         IN  IF r.exc # ""
             THEN [exc |-> r.exc, packet |-> pkt, rest |-> r.rest, sk |-> r.sk]
             ELSE IF r.res = <<>>
             THEN [exc |-> "", packet |-> pkt, rest |-> r.rest, sk |-> r.sk]
             ELSE recv_loop(pkt \o r.res, length, r.rest, RestDels(dels), r.sk)

\* recv_packet(): status "ok" with the packet, or the error it raises
recv_packet(stream, dels, sk) ==
    LET first == recv(stream, 4, Avail(stream, dels), sk)
    IN  IF first.exc # ""
        THEN [status |-> "no_socket", packet |-> <<>>, rest |-> first.rest, sk |-> first.sk]
        ELSE IF Len(first.res) # 4
        THEN [status |-> "short_prefix", packet |-> <<>>, rest |-> first.rest, sk |-> first.sk]
        ELSE LET length == Unpack32(first.res)
                 body == recv_loop(<<>>, length, first.rest, RestDels(dels), first.sk)
             IN  IF body.exc # ""
                 THEN [status |-> "no_socket", packet |-> body.packet,
                       rest |-> body.rest, sk |-> body.sk]
                 ELSE IF Len(body.packet) # length
                 THEN [status |-> "length_mismatch", packet |-> body.packet,
                       rest |-> body.rest, sk |-> body.sk]
                 ELSE [status |-> "ok", packet |-> body.packet,
                       rest |-> body.rest, sk |-> body.sk]

\* a construction that parses the code byte along with the payload
construct_protobuf_object_whole_packet(pkt, pbclass) ==
    IF pbclass = "None"
    THEN [cls |-> "None", bytes |-> <<>>]
    ELSE [cls |-> pbclass, bytes |-> pkt]

\* _construct_protobuf_object(packet, pbclass): None for a no-payload class,
\* else the message parsed from packet[1:], kept as its class and its bytes
construct_protobuf_object(pkt, pbclass) ==
    IF pbclass = "None"
    THEN [cls |-> "None", bytes |-> <<>>]
    ELSE [cls |-> pbclass, bytes |-> Tail(pkt)]

\* decode_packet(packet): (code, pbo), or the error raised
decode_packet(pkt) ==
    IF pkt = <<>>
    THEN [exc |-> "struct.error", code |-> -1, pbo |-> [cls |-> "None", bytes |-> <<>>]]
    ELSE IF pkt[1] \notin DOMAIN RESPCODE_TO_CLASS
    THEN [exc |-> "RiakngError", code |-> pkt[1], pbo |-> [cls |-> "None", bytes |-> <<>>]]
    ELSE [exc |-> "", code |-> pkt[1],
          pbo |-> construct_protobuf_object(pkt, RESPCODE_TO_CLASS[pkt[1]])]

\* what recv_message makes of p, the outcome of recv_packet
decode_received(p) ==
    IF p.status # "ok"
    THEN [exc |-> "RiakngError", why |-> p.status, code |-> -1,
          pbo |-> [cls |-> "None", bytes |-> <<>>], sk |-> p.sk, rest |-> p.rest,
          packet |-> p]
    ELSE LET d == decode_packet(p.packet)
         IN  [exc |-> d.exc, why |-> IF d.exc = "" THEN "ok" ELSE "decode",
              code |-> d.code, pbo |-> d.pbo, sk |-> p.sk, rest |-> p.rest,
              packet |-> p]

\* recv_message(): recv_packet() then decode_packet()
recv_message(stream, dels, sk) == decode_received(recv_packet(stream, dels, sk))

-----------------------------------------------------------------------------
(* pbc.py: ping() and get() on a decoded response. *)

\* values stored under a key, each with the byte that encodes it
ValueByte == ("d" :> 100) @@ ("e" :> 101)

Values == DOMAIN ValueByte

\* RpbGetResp messages the server may send: content (one value per entry),
\* vclock and unchanged, the last two optional
RpbGetRespMessages ==
    { m \in [content : SeqsUpTo(Values, MaxStored), has_vclock : BOOLEAN,
             has_unchanged : BOOLEAN, unchanged : BOOLEAN] :
          m.unchanged => m.has_unchanged }

RECURSIVE SerializeContents(_)
SerializeContents(content) ==
    IF content = <<>> THEN <<>>
    ELSE <<10, 3, 10, 1, ValueByte[content[1]]>> \o SerializeContents(Tail(content))

\* message.SerializeToString() for RpbGetResp: content is field 1 (an entry's
\* value its field 1), vclock field 2, unchanged field 3
SerializeRpbGetResp(m) ==
    SerializeContents(m.content)
        \o (IF m.has_vclock THEN <<18, 1, 7>> ELSE <<>>)
        \o (IF m.has_unchanged THEN <<24, IF m.unchanged THEN 1 ELSE 0>> ELSE <<>>)

\* pbo.ParseFromString(bytes) for RpbGetResp
RpbGetResp(bytes) ==
    CHOOSE m \in RpbGetRespMessages : SerializeRpbGetResp(m) = bytes

\* the RpbGetReq of get("b", "k"), serialized: bucket field 1, key field 2
RpbGetReqBytes == <<10, 1, 98, 18, 1, 107>>

\* ping(): True iff the response code is PING_RESP
pbc_ping_response(code) == Return(BoolValue(code = PING_RESP))

\* get() after recv_message(): the non-empty content list raises the 404; with
\* an empty list r["status"] and r["siblings"] = [] are built and the bare
\* `return` hands None to the caller.
pbc_get_response(code, pbo) ==
    IF code = GET_RESP
    THEN LET message == RpbGetResp(pbo.bytes)
         IN  IF Len(message.content) # 0
             THEN Raise("PBCRequestError", 404, "Key not found")
             ELSE Return(NoneValue)
    ELSE Raise("RiakngError", 0, "Expected response code does not match")

-----------------------------------------------------------------------------
(* pbc.py: the transport as a state machine. *)

\* the frames a server may answer with (the last carries a request code)
Replies ==
    { [code |-> GET_RESP, payload |-> SerializeRpbGetResp(m)] : m \in RpbGetRespMessages }
    \cup { [code |-> PING_RESP, payload |-> <<>>],
           [code |-> DEL_RESP, payload |-> <<>>],
           [code |-> ERROR_RESP, payload |-> <<10, 1, 120, 16, 1>>],
           [code |-> GET_REQ, payload |-> <<>>] }

NoReply == [code |-> -1, payload |-> <<>>, decoded |-> FALSE]

\* how the reply's bytes become readable: all at once, the prefix then the
\* rest, the prefix then one byte then the rest, a prefix split in two, or
\* with the peer closing (a read of no bytes) after the prefix or one byte on
Deliveries == { <<>>, <<4>>, <<4, 1>>, <<2>>, <<4, 0>>, <<4, 1, 0>> }

\* the re-raise condition comparing attempt, not attempt + 1
send_packet_raises_early(att, maxa, err) == att = maxa /\ err # "None"

\* the condition under which send_packet re-raises after its loop

send_packet_raises(att, maxa, err) == att + 1 = maxa /\ err # "None"

\* self._socket together with the descriptors opened and not yet closed
Transport(sk, n) == [sock |-> sk, fds |-> n]

\* a close() that forgets the socket without closing its descriptor
close_drops_handle(t) == Transport("None", t.fds)

\* close()
close(t) == IF t.sock # "None" THEN Transport("None", t.fds - 1) ELSE t

\* a connect() that opens a socket whether or not one is held
connect_always_opens(t, err) ==
    [t |-> Transport("open", t.fds + 1), exc |-> "None", held |-> t.sock # "None",
     opened |-> TRUE]

\* connect(); err is what socket.connect raises on a new socket, "None" when
\* it succeeds.  exc is the error connect() re-raises after closing.
connect(t, err) ==
    IF t.sock = "None"
    THEN LET made == Transport("open", t.fds + 1)
         IN  IF err = "None"
             THEN [t |-> made, exc |-> "None", held |-> FALSE, opened |-> TRUE]
             ELSE [t |-> close(made), exc |-> err, held |-> FALSE, opened |-> TRUE]
    ELSE [t |-> t, exc |-> "None", held |-> TRUE, opened |-> FALSE]

\* a loop body without the break of its else clause
send_packet_next_no_break(err) ==
    IF err = "None" \/ err \in CONN_CLOSED_ERRORS THEN "loop" ELSE "done"

\* where send_packet goes after one attempt: break on success, continue on a
\* connection-dead error, raise on any other socket error
send_packet_next(err) ==
    IF err = "None" THEN "after"
    ELSE IF err \in CONN_CLOSED_ERRORS THEN "loop"
    ELSE "done"

NoRecvPacket ==
    [status |-> "none", packet |-> <<>>, stream |-> <<>>, dels |-> <<>>, rest |-> <<>>,
     sk0 |-> "None", sk |-> "None"]

NoLife ==
    [call |-> "none", prev |-> "none", prev_exc |-> "None", sock0 |-> "None",
     fds0 |-> 0, exc |-> "None", opened |-> FALSE]

\* send_message(code, message): encode, then enter send_packet
PBCCall(o) ==
    /\ pc = "idle"
    /\ op' = o
    /\ packet' = IF o = "ping" THEN encode_message(PING_REQ, <<>>)
                 ELSE encode_message(GET_REQ, RpbGetReqBytes)
    /\ idx' = 0
    /\ attempt' = 0
    /\ e' = "None"
    /\ hist' = <<>>
    /\ fresh' = <<>>
    /\ sp' = "running"
    /\ sent' = 0
    /\ recvd' = 0
    /\ reply' = NoReply
    /\ rp' = NoRecvPacket
    /\ result' = NoResult
    /\ life' = NoLife
    /\ pc' = "loop"
    /\ UNCHANGED <<max_attempt, sock, fds, unread>>
    /\ UNCHANGED <<codecVars, httpVars, linkVars, walkVars, ixVars>>

\* one iteration: connect() (a no-op on a held socket) and sendall succeed
SendAttemptOk ==
    /\ pc = "loop" /\ idx < max_attempt
    /\ LET c == connect(Transport(sock, fds), "None")
       IN  /\ sock' = c.t.sock
           /\ fds' = c.t.fds
           /\ fresh' = Append(fresh, [held |-> c.held, opened |-> c.opened])
    /\ attempt' = idx /\ idx' = idx + 1
    /\ e' = "None"
    /\ sent' = sent + 1
    /\ hist' = Append(hist, "ok")
    /\ pc' = send_packet_next("None")
    /\ UNCHANGED <<max_attempt, op, packet, sp, reply, result, recvd, rp, life, unread>>
    /\ UNCHANGED <<codecVars, httpVars, linkVars, walkVars, ixVars>>

\* what the except clause of send_packet does with socket.error err, c being
\* what connect() did in this iteration
SendAttemptFailed(err, c) ==
    /\ attempt' = idx /\ idx' = idx + 1
    /\ e' = err
    /\ hist' = Append(hist, err)
    /\ fresh' = Append(fresh, [held |-> c.held, opened |-> c.opened])
    /\ LET t == IF err \in CONN_CLOSED_ERRORS THEN close(c.t) ELSE c.t
       IN  /\ sock' = t.sock /\ fds' = t.fds
           /\ unread' = IF t.sock = "None" THEN <<>> ELSE unread
    /\ pc' = send_packet_next(err)
    /\ IF send_packet_next(err) = "done"
       THEN /\ sp' = "raise"
            /\ result' = Raise("socket.error", 0, err)
       ELSE UNCHANGED <<sp, result>>
    /\ UNCHANGED <<max_attempt, op, packet, sent, reply, recvd, rp, life>>
    /\ UNCHANGED <<codecVars, httpVars, linkVars, walkVars, ixVars>>

\* one iteration: connect() opens a socket, its connect raises, connect()
\* closes the socket and re-raises
SendAttemptConnectFail(err) ==
    /\ pc = "loop" /\ idx < max_attempt
    /\ sock = "None"
    /\ SendAttemptFailed(err, connect(Transport(sock, fds), err))

\* one iteration: the socket is connected and sendall raises
SendAttemptSendFail(err) ==
    /\ pc = "loop" /\ idx < max_attempt
    /\ SendAttemptFailed(err, connect(Transport(sock, fds), "None"))

\* xrange is exhausted: the for loop ends without a break
SendLoopExhausted ==
    /\ pc = "loop" /\ ~(idx < max_attempt)
    /\ pc' = "after"
    /\ UNCHANGED <<max_attempt, sock, op, packet, idx, attempt, e, hist, sp, sent,
                   reply, result, fds, fresh, recvd, rp, life, unread>>
    /\ UNCHANGED <<codecVars, httpVars, linkVars, walkVars, ixVars>>

\* the statement after the loop: re-raise the last error or return
SendPacketExit ==
    /\ pc = "after"
    /\ IF send_packet_raises(attempt, max_attempt, e)
       THEN /\ sp' = "raise"
            /\ result' = Raise("socket.error", 0, e)
            /\ pc' = "done"
       ELSE /\ sp' = "return"
            /\ pc' = "recv"
            /\ UNCHANGED result
    /\ UNCHANGED <<max_attempt, sock, op, packet, idx, attempt, e, hist, sent, reply,
                   fds, fresh, recvd, rp, life, unread>>
    /\ UNCHANGED <<codecVars, httpVars, linkVars, walkVars, ixVars>>

\* the locals of send_packet, and the record of its attempts, go with it
SendPacketLocalsGone ==
    /\ idx' = 0
    /\ attempt' = 0
    /\ e' = "None"
    /\ hist' = <<>>
    /\ fresh' = <<>>

\* send_message returns to ping() or get(), which calls recv_message
SendMessageReturn ==
    /\ pc = "recv" /\ pc' = "reading"
    /\ SendPacketLocalsGone
    /\ UNCHANGED <<max_attempt, sock, op, packet, sp, sent, reply, result, fds,
                   recvd, rp, life, unread>>
    /\ UNCHANGED <<codecVars, httpVars, linkVars, walkVars, ixVars>>

\* what the peer sends of a frame: all of it, all but its last byte, or the
\* frame with one more byte behind it
Shapes == {"whole", "cut", "extra"}

Shaped(frame, shape) ==
    IF shape = "cut" THEN Take(frame, Len(frame) - 1)
    ELSE IF shape = "extra" THEN frame \o <<0>>
    ELSE frame

\* the rest of ping()/get() once recv_message has made m of the stream
ReplyRead(rep, dels, stream, m) ==
    /\ IF m.sk # sock
       THEN sock' = close(Transport(sock, fds)).sock /\ fds' = close(Transport(sock, fds)).fds
       ELSE UNCHANGED <<sock, fds>>
    /\ reply' = IF sent = 0 THEN NoReply
                ELSE [code |-> rep.code, payload |-> rep.payload,
                      decoded |-> m.exc = ""]
    /\ rp' = [status |-> m.packet.status, packet |-> m.packet.packet,
              stream |-> stream, dels |-> dels, rest |-> m.packet.rest,
              sk0 |-> sock, sk |-> m.packet.sk]
    /\ unread' = IF m.sk = "None" THEN <<>> ELSE m.rest
    /\ result' = IF m.exc # "" THEN Raise(m.exc, 0, m.why)
                 ELSE IF op = "ping" THEN pbc_ping_response(m.code)
                 ELSE pbc_get_response(m.code, m.pbo)

\* the bytes the socket will yield: those left unread, then what the server
\* sends in answer, which is nothing when no request reached it
ReplyStream(rep, shape) ==
    IF sent = 0 THEN unread
    ELSE unread \o Shaped(encode_message(rep.code, rep.payload), shape)

\* recv_message() and the rest of ping()/get(): the server answers a delivered
\* request with the frame of rep, sent as shape says and readable as dels
\* says; no socket error occurs
PBCRecvMessage(rep, dels, shape) ==
    /\ pc = "reading"
    /\ ReplyRead(rep, dels, ReplyStream(rep, shape),
                 recv_message(ReplyStream(rep, shape), dels, sock))
    /\ recvd' = recvd + 1
    /\ pc' = "done"
    /\ UNCHANGED <<max_attempt, op, packet, idx, attempt, e, hist, sp, sent, fresh, life>>
    /\ UNCHANGED <<codecVars, httpVars, linkVars, walkVars, ixVars>>

\* a receive path that goes back to sending after a connection-dead error
recv_error_retries(err) == IF err \in CONN_CLOSED_ERRORS THEN "loop" ELSE "done"

\* where ping()/get() go when recv() re-raises err: out, to the caller
recv_error_next(err) == "done"

\* what reaches the socket after a recv() that raised: nothing, or the
\* frame of a reply the server sent too late
LateReplies ==
    {<<>>} \cup { f \in { encode_message(r.code, r.payload) : r \in Replies } :
                      Len(f) <= MaxUnread }

\* recv_message() when socket.recv raises err: recv() closes the socket on a
\* connection-dead error and re-raises; on a socket that stays open the
\* bytes of `late` arrive afterwards
PBCRecvSocketError(err, late) ==
    /\ pc = "reading"
    /\ sock # "None"
    /\ sent = 0 => late = <<>>
    /\ LET t == IF err \in CONN_CLOSED_ERRORS THEN close(Transport(sock, fds))
                ELSE Transport(sock, fds)
       IN  /\ sock' = t.sock /\ fds' = t.fds
           /\ unread' = IF t.sock = "None" THEN <<>> ELSE unread \o late
           /\ t.sock = "None" => late = <<>>
    /\ result' = Raise("socket.error", 0, err)
    /\ recvd' = recvd + 1
    /\ pc' = recv_error_next(err)
    /\ UNCHANGED <<max_attempt, op, packet, idx, attempt, e, hist, sp, sent, reply,
                   fresh, rp, life>>
    /\ UNCHANGED <<codecVars, httpVars, linkVars, walkVars, ixVars>>

\* the caller takes the outcome of the operation; the transport keeps its
\* socket, and what is unread on it, and is ready for the next call
OutcomeTaken ==
    /\ pc = "done" /\ pc' = "idle"
    /\ op' = "none"
    /\ packet' = <<>>
    /\ sp' = "none"
    /\ sent' = 0
    /\ recvd' = 0
    /\ reply' = NoReply
    /\ rp' = NoRecvPacket
    /\ result' = NoResult
    /\ SendPacketLocalsGone
    /\ UNCHANGED <<max_attempt, sock, fds, life, unread>>
    /\ UNCHANGED <<codecVars, httpVars, linkVars, walkVars, ixVars>>

\* the operation is over and nothing is left unread on the socket
PBCReturn == unread = <<>> /\ OutcomeTaken

\* the operation is over with bytes left unread on the socket, which the
\* transport keeps for its next operation
PBCReturnUnread == unread # <<>> /\ Len(unread) <= MaxUnread /\ OutcomeTaken

\* the caller calls connect() or close() itself, between operations; t is
\* what the call makes of the transport and exc what it raises
Lifecycle(call, t, exc, opened) ==
    /\ pc = "idle"
    /\ sock' = t.sock
    /\ fds' = t.fds
    /\ life' = [call |-> call, prev |-> life.call, prev_exc |-> life.exc,
                sock0 |-> sock, fds0 |-> fds, exc |-> exc, opened |-> opened]
    /\ result' = IF exc # "None" THEN Raise("socket.error", 0, exc) ELSE NoResult
    /\ pc' = "idle"
    /\ op' = "none"
    /\ packet' = <<>>
    /\ idx' = 0
    /\ attempt' = 0
    /\ e' = "None"
    /\ hist' = <<>>
    /\ fresh' = <<>>
    /\ sp' = "none"
    /\ sent' = 0
    /\ recvd' = 0
    /\ reply' = NoReply
    /\ rp' = NoRecvPacket
    /\ unread' = IF t.sock = "None" THEN <<>> ELSE unread
    /\ UNCHANGED max_attempt
    /\ UNCHANGED <<codecVars, httpVars, linkVars, walkVars, ixVars>>

PBCConnect(err) ==
    /\ sock # "None" => err = "None"
    /\ LET c == connect(Transport(sock, fds), err)
       IN  Lifecycle("connect", c.t, c.exc, c.opened)

PBCClose == Lifecycle("close", close(Transport(sock, fds)), "None", FALSE)

InitPBC ==
    /\ max_attempt \in 0..MaxAttempt
    /\ sock = "None"
    /\ pc = "idle"
    /\ op = "none"
    /\ packet = <<>>
    /\ idx = 0
    /\ attempt = 0
    /\ e = "None"
    /\ hist = <<>>
    /\ sp = "none"
    /\ sent = 0
    /\ reply = NoReply
    /\ result = NoResult
    /\ fds = 0
    /\ fresh = <<>>
    /\ recvd = 0
    /\ rp = NoRecvPacket
    /\ life = NoLife
    /\ unread = <<>>

IdlePBC ==
    /\ max_attempt = 1
    /\ sock = "None"
    /\ pc = "idle"
    /\ op = "none"
    /\ packet = <<>>
    /\ idx = 0
    /\ attempt = 0
    /\ e = "None"
    /\ hist = <<>>
    /\ sp = "none"
    /\ sent = 0
    /\ reply = NoReply
    /\ result = NoResult
    /\ fds = 0
    /\ fresh = <<>>
    /\ recvd = 0
    /\ rp = NoRecvPacket
    /\ life = NoLife
    /\ unread = <<>>

NextPBC ==
    \/ \E o \in {"ping", "get"} : PBCCall(o)
    \/ SendAttemptOk
    \/ \E err \in SocketErrors : SendAttemptConnectFail(err)
    \/ \E err \in SocketErrors : SendAttemptSendFail(err)
    \/ SendLoopExhausted
    \/ SendPacketExit
    \/ SendMessageReturn
    \/ \E rep \in Replies, dels \in Deliveries, shape \in Shapes :
           PBCRecvMessage(rep, dels, shape)
    \/ \E err \in SocketErrors, late \in LateReplies : PBCRecvSocketError(err, late)
    \/ PBCReturn
    \/ \E err \in SocketErrors \cup {"None"} : PBCConnect(err)
    \/ PBCClose

\* a session of operations on one transport that goes on using a socket with
\* bytes left unread on it; the server answers each delivered request with
\* one whole frame
NextPBCSession ==
    \/ \E o \in {"ping", "get"} : PBCCall(o)
    \/ SendAttemptOk
    \/ \E err \in SocketErrors : SendAttemptConnectFail(err)
    \/ \E err \in SocketErrors : SendAttemptSendFail(err)
    \/ SendLoopExhausted
    \/ SendPacketExit
    \/ SendMessageReturn
    \/ \E rep \in Replies, dels \in Deliveries : PBCRecvMessage(rep, dels, "whole")
    \/ \E err \in SocketErrors, late \in LateReplies : PBCRecvSocketError(err, late)
    \/ PBCReturn
    \/ PBCReturnUnread

-----------------------------------------------------------------------------
(* Frame codec loop-back: encode_message, then recv_packet and decode_packet *)
(* on the emitted frame.                                                     *)

\* payload bytes explored
ByteSample == {0, 10, 255}

\* delivery plans that make the 4 prefix bytes readable at the first read
CodecDeliveries == { <<>>, <<4>>, <<4, 1>>, <<4, 1, 1>>, <<5, 1>> }

NoRecv == [status |-> "none", packet |-> <<>>, rest |-> <<>>, sk |-> "open"]

NoDecode == [exc |-> "none", code |-> -1, pbo |-> [cls |-> "None", bytes |-> <<>>]]

CodecEncode ==
    /\ c_pc = "start"
    /\ c_frame' = encode_message(c_code, c_payload)
    /\ c_pc' = "encoded"
    /\ UNCHANGED <<c_code, c_payload, c_dels, c_recv, c_out>>
    /\ UNCHANGED <<pbcVars, httpVars, linkVars, walkVars, ixVars>>

CodecRecvPacket(dels) ==
    /\ c_pc = "encoded"
    /\ c_dels' = dels
    /\ c_recv' = recv_packet(c_frame, dels, "open")
    /\ c_pc' = "received"
    /\ UNCHANGED <<c_code, c_payload, c_frame, c_out>>
    /\ UNCHANGED <<pbcVars, httpVars, linkVars, walkVars, ixVars>>

CodecDecodePacket ==
    /\ c_pc = "received" /\ c_recv.status = "ok"
    /\ c_out' = decode_packet(c_recv.packet)
    /\ c_pc' = "decoded"
    /\ UNCHANGED <<c_code, c_payload, c_frame, c_dels, c_recv>>
    /\ UNCHANGED <<pbcVars, httpVars, linkVars, walkVars, ixVars>>

InitCodec ==
    /\ c_code \in 0..255
    /\ c_payload \in SeqsUpTo(ByteSample, MaxPayload)
    /\ c_frame = <<>>
    /\ c_dels = <<>>
    /\ c_recv = NoRecv
    /\ c_out = NoDecode
    /\ c_pc = "start"

IdleCodec ==
    /\ c_code = 0
    /\ c_payload = <<>>
    /\ c_frame = <<>>
    /\ c_dels = <<>>
    /\ c_recv = NoRecv
    /\ c_out = NoDecode
    /\ c_pc = "start"

NextCodec ==
    \/ CodecEncode
    \/ \E dels \in CodecDeliveries : CodecRecvPacket(dels)
    \/ CodecDecodePacket

\* lengths a peer may declare in the 4-byte prefix of what it sends
DeclaredLengths == {-1, 0, 1}

\* the peer sends a prefix declaring n, then that many of the bytes of the
\* code and the payload (none when n is not positive)
CodecPeerFrame(n) ==
    /\ c_pc = "start"
    /\ c_frame' = Pack32(n) \o Take(<<c_code>> \o c_payload, IF n > 0 THEN n ELSE 0)
    /\ c_pc' = "encoded"
    /\ UNCHANGED <<c_code, c_payload, c_dels, c_recv, c_out>>
    /\ UNCHANGED <<pbcVars, httpVars, linkVars, walkVars, ixVars>>

NextPeerFrames ==
    \/ \E n \in DeclaredLengths : CodecPeerFrame(n)
    \/ \E dels \in CodecDeliveries : CodecRecvPacket(dels)
    \/ CodecDecodePacket

-----------------------------------------------------------------------------
(* http.py: the Link header. *)

\* Python's None where a string is expected
NoneStr == <<"<None>">>

\* "{0}".format(x): None prints as the four characters None
Format(x) == IF x = NoneStr THEN <<"N", "o", "n", "e">> ELSE x

\* _riak_link_format.format(bucket=..., key=..., tag=...)
riak_link_format(bucket, key, tag) ==
    <<"<", "/", "r", "i", "a", "k", "/">> \o Format(bucket) \o <<"/">> \o Format(key)
        \o <<">", ";", " ", "r", "i", "a", "k", "t", "a", "g", "=", "\"">>
        \o Format(tag) \o <<"\"", ",", " ">>

RECURSIVE concat_links(_)
concat_links(links) ==
    IF links = <<>> THEN <<>>
    ELSE riak_link_format(links[1].bucket, links[1].key, links[1].tag)
             \o concat_links(Tail(links))

\* put(): headers["Link"], set only for a non-empty list, the final ", " cut off
link_header(links) ==
    IF links = <<>>
    THEN [present |-> FALSE, text |-> <<>>]
    ELSE LET t == concat_links(links)
         IN  [present |-> TRUE, text |-> SubSeq(t, 1, Len(t) - 2)]

\* the characters str.strip() removes
Whitespace == {" ", "\t", "\n", "\r"}

\* str.strip()
RECURSIVE lstrip(_)
lstrip(t) == IF t # <<>> /\ t[1] \in Whitespace THEN lstrip(Tail(t)) ELSE t

RECURSIVE rstrip(_)
rstrip(t) ==
    IF t # <<>> /\ t[Len(t)] \in Whitespace
    THEN rstrip(SubSeq(t, 1, Len(t) - 1)) ELSE t

strip(t) == lstrip(rstrip(t))

\* first index >= from at which t holds ch, 0 when there is none
IndexFrom(t, ch, from) ==
    LET hits == {i \in from..Len(t) : t[i] = ch}
    IN  IF hits = {} THEN 0 ELSE CHOOSE i \in hits : \A j \in hits : i <= j

\* t.split(sep) for a one-character separator
RECURSIVE split(_, _)
split(t, sep) ==
    LET i == IndexFrom(t, sep, 1)
    IN  IF i = 0 THEN <<t>>
        ELSE <<SubSeq(t, 1, i - 1)>> \o split(SubSeq(t, i + 1, Len(t)), sep)

StartsWithAt(t, lit, i) ==
    /\ i >= 1
    /\ i + Len(lit) - 1 <= Len(t)
    /\ SubSeq(t, i, i + Len(lit) - 1) = lit

MaxOf(S) == CHOOSE x \in S : \A y \in S : y <= x

\* index after the literal  >; ?riaktag="  when it starts at c, else 0
LinkLiteralEnd(t, c) ==
    IF StartsWithAt(t, <<">", ";", " ", "r", "i", "a", "k", "t", "a", "g", "=", "\"">>, c)
    THEN c + 12
    ELSE IF StartsWithAt(t, <<">", ";", "r", "i", "a", "k", "t", "a", "g", "=", "\"">>, c)
    THEN c + 11
    ELSE 0

\* ends of the tag group starting at g: indexes u of a closing quote with
\* t[g..u-1] non-empty and free of '
TagEnds(t, g) ==
    IF g = 0 THEN {}
    ELSE {u \in (g + 1)..Len(t) : t[u] = "\"" /\ \A j \in g..(u - 1) : t[j] # "'"}

\* _links_regex.match(t): the groups of
\*   </([^/]+)/([^/]+)/([^/]+)>; ?riaktag="([^']+)"
\* matched at the start of t, greedy with backtracking
links_regex_match(t) ==
    LET a  == IndexFrom(t, "/", 3)
        b  == IF a = 0 THEN 0 ELSE IndexFrom(t, "/", a + 1)
        ok == /\ Len(t) >= 2 /\ t[1] = "<" /\ t[2] = "/"
              /\ a >= 4 /\ b >= a + 2
        cs == IF ~ok THEN {}
              ELSE {c \in (b + 2)..Len(t) :
                        /\ \A j \in (b + 1)..(c - 1) : t[j] # "/"
                        /\ TagEnds(t, LinkLiteralEnd(t, c)) # {}}
    IN  IF cs = {}
        THEN [matched |-> FALSE, g1 |-> <<>>, g2 |-> <<>>, g3 |-> <<>>, g4 |-> <<>>]
        ELSE LET c == MaxOf(cs)
                 g == LinkLiteralEnd(t, c)
                 u == MaxOf(TagEnds(t, g))
             IN  [matched |-> TRUE,
                  g1 |-> SubSeq(t, 3, a - 1),
                  g2 |-> SubSeq(t, a + 1, b - 1),
                  g3 |-> SubSeq(t, b + 1, c - 1),
                  g4 |-> SubSeq(t, g, u - 1)]

RECURSIVE parse_link_items(_)
parse_link_items(items) ==
    IF items = <<>> THEN <<>>
    ELSE LET m == links_regex_match(strip(items[1]))
         IN  (IF m.matched
              THEN << [bucket |-> m.g2, key |-> m.g3, tag |-> m.g4] >>
              ELSE <<>>) \o parse_link_items(Tail(items))

\* _parse_links(linkstext); h is the header as link_header gives it, a
\* missing header reading as None
parse_links(h) ==
    IF ~h.present \/ h.text = <<>> THEN <<>>
    ELSE parse_link_items(split(strip(h.text), ","))


\* put() building the Link header from its links argument
LinkBuild ==
    /\ l_pc = "start"
    /\ l_header' = link_header(l_links)
    /\ l_pc' = "built"
    /\ UNCHANGED <<l_links, l_parsed>>
    /\ UNCHANGED <<pbcVars, codecVars, httpVars, walkVars, ixVars>>

\* _parse_object reading the links back from that header
LinkParse ==
    /\ l_pc = "built"
    /\ l_parsed' = parse_links(l_header)
    /\ l_pc' = "parsed"
    /\ UNCHANGED <<l_links, l_header>>
    /\ UNCHANGED <<pbcVars, codecVars, httpVars, walkVars, ixVars>>

\* bucket, key and tag texts explored; tag may be None
LinkBuckets == { <<"b">>, <<"b", "2">> }

LinkKeys == { <<"k">>, <<"k", ",", "j">>, <<"k", " ">> }

LinkTags == { NoneStr, <<"t">>, <<"t", "'">> }

LinkSample == [bucket : LinkBuckets, key : LinkKeys, tag : LinkTags]

InitLinks ==
    /\ l_links \in SeqsUpTo(LinkSample, MaxLinks)
    /\ l_header = [present |-> FALSE, text |-> <<>>]
    /\ l_parsed = <<>>
    /\ l_pc = "start"

IdleLinks ==
    /\ l_links = <<>>
    /\ l_header = [present |-> FALSE, text |-> <<>>]
    /\ l_parsed = <<>>
    /\ l_pc = "start"

NextLinks ==
    \/ LinkBuild
    \/ LinkParse

-----------------------------------------------------------------------------
(* http.py: HTTPTransport.  A response is its status, reason, the headers   *)
(* the code reads (a function from lower-case names) and its body as lines. *)

\* status codes the server may answer with, and their reason text
Reason ==
    (200 :> "OK") @@ (201 :> "Created") @@ (204 :> "No Content")
        @@ (300 :> "Multiple Choices") @@ (304 :> "Not Modified")
        @@ (404 :> "Object Not Found") @@ (500 :> "Internal Server Error")

StatusCodes == DOMAIN Reason

Response(status, headers, text) ==
    [status |-> status, reason |-> Reason[status], headers |-> headers,
     text |-> text, code |-> -1]

NoResponse ==
    [status |-> 0, reason |-> "", headers |-> <<>>, text |-> <<>>, code |-> -1]

\* a Python dict: the function from its keys to their values
Dict(d) == [type |-> "dict", d |-> d]

\* HTTPTransport.__GET_STATUS
GET_STATUS == (200 :> "ok") @@ (300 :> "multiple_choice") @@ (304 :> "not_modified")

\* HTTPTransport.__PUT_STATUS
PUT_STATUS ==
    (201 :> "created") @@ (200 :> "ok") @@ (204 :> "no_content")
        @@ (300 :> "multiple_choice")

\* delete() expecting the "removed" status alone
DELETE_STATUS_204_only == {204}

\* delete(): the statuses handed to _assert_response_code

DELETE_STATUS == {204, 404}

\* index() and walk_link(): the statuses handed to _assert_response_code
OK_STATUS == {200}

\* _assert_response_code(response, expected): TRUE iff it raises
assert_response_code(response, expected) == response.status \notin expected

\* an HTTPRequestError that drops the reason text
HTTPRequestError_status_only(response) ==
    Raise("HTTPRequestError", response.status, "")

\* the HTTPRequestError _assert_response_code raises
HTTPRequestError(response) ==
    Raise("HTTPRequestError", response.status, response.reason)

\* _parse_object(headers, content); the responses modelled carry no
\* x-riak-meta-* or x-riak-index-* header, so meta and indexes stay empty
parse_object(headers, content) ==
    [data |-> content,
     vclock |-> IF "x-riak-vclock" \in DOMAIN headers
                THEN headers["x-riak-vclock"] ELSE "None",
     links |-> parse_links(IF "link" \in DOMAIN headers
                           THEN [present |-> TRUE, text |-> headers["link"]]
                           ELSE [present |-> FALSE, text |-> <<>>]),
     meta |-> <<>>,
     indexes |-> <<>>]

\* _parse_siblings(content): the lines after the first
parse_siblings(text) == [data |-> IF text = <<>> THEN <<>> ELSE Tail(text)]

\* get() on the response; accept is the caller's Accept header
http_get(response, accept) ==
    IF assert_response_code(response, DOMAIN GET_STATUS)
    THEN HTTPRequestError(response)
    ELSE LET r == [headers |-> response.headers,
                   status |-> GET_STATUS[response.status]]
         IN  IF response.status = 200
             THEN Return(Dict(parse_object(response.headers, response.text) @@ r))
             ELSE IF response.status = 300
             THEN IF accept = "multipart/mixed"
                  THEN Raise("NotImplementedError", 0, "lolwut")
                  ELSE Return(Dict(parse_siblings(response.text) @@ r))
             ELSE Return(Dict([data |-> NoneValue] @@ r))

\* Python's None where a key is expected
NoneKey == "<None>"

\* the text after the last "/" of a Location, a path held as its segments
AfterLastSlash(location) == location[Len(location)]

\* put() on the response; key is the caller's key (NoneKey for None)
http_put(key, response, returnbody) ==
    LET k == IF key = NoneKey THEN "" ELSE key
    IN  IF assert_response_code(response, DOMAIN PUT_STATUS)
        THEN HTTPRequestError(response)
        ELSE LET h == response.headers
                 r == [headers |-> h, status |-> PUT_STATUS[response.status]]
                 rk == IF "location" \in DOMAIN h /\ h["location"] # <<>>
                       THEN [key |-> AfterLastSlash(h["location"])]
                       ELSE [key |-> k]
             IN  IF response.status = 300
                 THEN Return(Dict(parse_siblings(response.text) @@ rk @@ r))
                 ELSE IF response.status \in {200, 201} /\ returnbody
                 THEN Return(Dict(parse_object(h, response.text) @@ rk @@ r))
                 ELSE Return(Dict(rk @@ r))

\* delete() on the response
http_delete(response) ==
    IF assert_response_code(response, DELETE_STATUS)
    THEN HTTPRequestError(response)
    ELSE Return(BoolValue(TRUE))

\* field[-n:]
LastN(t, n) == SubSeq(t, IF Len(t) > n THEN Len(t) - n + 1 ELSE 1, Len(t))

\* index(): TRUE iff the field name passes the check made before the request
index_field_ok(field) ==
    ~(Len(field) <= 4 \/ LastN(field, 3) \notin {<<"b", "i", "n">>, <<"i", "n", "t">>})

\* index() on the response: response.json()["keys"], held as the body's lines
http_index(response) ==
    IF assert_response_code(response, OK_STATUS)
    THEN HTTPRequestError(response)
    ELSE Return([type |-> "list", items |-> response.text])

\* texts the multipart parser looks for
MULTIPART_MIXED == <<"m", "u", "l", "t", "i", "p", "a", "r", "t", "/", "m", "i", "x", "e", "d">>

MULTIPART_BOUNDARY_LITERAL == MULTIPART_MIXED \o <<";", " ", "b", "o", "u", "n", "d", "a", "r", "y", "=">>

H_CONTENT_TYPE == <<"c", "o", "n", "t", "e", "n", "t", "-", "t", "y", "p", "e">>

H_VCLOCK == <<"x", "-", "r", "i", "a", "k", "-", "v", "c", "l", "o", "c", "k">>

H_LINK == <<"l", "i", "n", "k">>

H_LOCATION == <<"l", "o", "c", "a", "t", "i", "o", "n">>

\* Python text, held as the sequence of its characters, positions 0-based
CRLF == <<"\r", "\n">>

\* s[a:b] for 0 <= a
slice(s, a, b) == SubSeq(s, a + 1, Min(b, Len(s)))

\* s.find(sub, start): the lowest position >= start, -1 when there is none
find(s, sub, start) ==
    LET hits == {i \in start..(Len(s) - Len(sub)) :
                     SubSeq(s, i + 1, i + Len(sub)) = sub}
    IN  IF hits = {} THEN -1 ELSE CHOOSE i \in hits : \A j \in hits : i <= j

\* s.index(sub) in the place of rindex: the lowest position
index_lowest(s, sub) == find(s, sub, 0)

\* s.rindex(sub): the highest position, -1 standing for ValueError
rindex(s, sub) ==
    LET hits == {i \in 0..(Len(s) - Len(sub)) :
                     SubSeq(s, i + 1, i + Len(sub)) = sub}
    IN  IF hits = {} THEN -1 ELSE CHOOSE i \in hits : \A j \in hits : j <= i

\* s.partition(sep)
partition(s, sep) ==
    LET i == find(s, sep, 0)
    IN  IF i = -1 THEN [head |-> s, sep |-> <<>>, tail |-> <<>>]
        ELSE [head |-> slice(s, 0, i), sep |-> sep,
              tail |-> slice(s, i + Len(sep), Len(s))]

\* s.split(sep) for a separator of any length
RECURSIVE split_str(_, _)
split_str(s, sep) ==
    LET i == find(s, sep, 0)
    IN  IF i = -1 THEN <<s>>
        ELSE <<slice(s, 0, i)>> \o split_str(slice(s, i + Len(sep), Len(s)), sep)

UpperCase ==
    <<"A", "B", "C", "D", "E", "F", "G", "H", "I", "J", "K", "L", "M",
      "N", "O", "P", "Q", "R", "S", "T", "U", "V", "W", "X", "Y", "Z">>

LowerCase ==
    <<"a", "b", "c", "d", "e", "f", "g", "h", "i", "j", "k", "l", "m",
      "n", "o", "p", "q", "r", "s", "t", "u", "v", "w", "x", "y", "z">>

DigitChar == <<"0", "1", "2", "3", "4", "5", "6", "7", "8", "9">>

Digits == {DigitChar[n] : n \in 1..10}

\* s.lower()
lower(s) ==
    [i \in 1..Len(s) |->
        IF \E n \in 1..26 : UpperCase[n] = s[i]
        THEN LowerCase[CHOOSE n \in 1..26 : UpperCase[n] = s[i]]
        ELSE s[i]]

\* the characters [a-zA-Z0-9] matches
AlNum == {UpperCase[n] : n \in 1..26} \cup {LowerCase[n] : n \in 1..26} \cup Digits

\* BOUNDARY_REGEX.match(content_type) for
\*   multipart/mixed; boundary=([a-zA-Z0-9]+)
\* matched at the start of the text; g1 is the longest run of [a-zA-Z0-9]
BOUNDARY_REGEX_match(content_type) ==
    LET lit == MULTIPART_BOUNDARY_LITERAL
        n   == Len(lit)
        run == {u \in (n + 1)..Len(content_type) :
                    \A j \in (n + 1)..u : content_type[j] \in AlNum}
    IN  IF StartsWithAt(content_type, lit, 1) /\ run # {}
        THEN [matched |-> TRUE, g1 |-> SubSeq(content_type, n + 1, MaxOf(run))]
        ELSE [matched |-> FALSE, g1 |-> <<>>]

\* the part's header lines into a dict: h[k.lower()] = v.strip(), a later
\* line replacing an earlier one of the same name
RECURSIVE part_headers(_)
part_headers(lines) ==
    IF lines = <<>> THEN <<>>
    ELSE LET p == partition(lines[Len(lines)], <<":", " ">>)
         IN  (lower(p.head) :> strip(p.tail))
                 @@ part_headers(SubSeq(lines, 1, Len(lines) - 1))

\* outcome of _parse_linked_object_part: the exception raised ("" for none)
\* and the parts returned
Parts(exc, parts) == [exc |-> exc, parts |-> parts]

\* _parse_object(h, c) on the plain dict of a part's headers, then the key
\* taken from the part's location; a missing x-riak-vclock or link is a
\* KeyError, a location without "/" a ValueError
parse_object_part(h, c) ==
    IF H_VCLOCK \notin DOMAIN h \/ H_LINK \notin DOMAIN h
    THEN Parts("KeyError", <<>>)
    ELSE LET r == [data |-> c,
                   vclock |-> h[H_VCLOCK],
                   links |-> parse_links([present |-> TRUE, text |-> h[H_LINK]]),
                   meta |-> <<>>,
                   indexes |-> <<>>]
         IN  IF H_LOCATION \in DOMAIN h /\ h[H_LOCATION] # <<>>
             THEN LET location == h[H_LOCATION]
                      i == rindex(location, <<"/">>)
                  IN  IF i = -1 THEN Parts("ValueError", <<>>)
                      ELSE Parts("", << Dict([key |-> slice(location, i + 1, Len(location))]
                                                @@ r) >>)
             ELSE Parts("", << Dict(r) >>)

\* _parse_linked_object_part(boundary, content); linked_parts is its while
\* loop entered with the given value of start
RECURSIVE parse_linked_object_part(_, _)
RECURSIVE linked_parts(_, _, _)
linked_parts(content, startsep, from) ==
    LET seplen == Len(startsep)
        start  == find(content, startsep, from) + seplen
        end    == find(content, startsep, start)
    IN  IF start = -1 \/ end = -1 THEN Parts("", <<>>)
        ELSE LET part == strip(slice(content, start, end))
                 p    == partition(part, CRLF \o CRLF)
                 h    == part_headers(split_str(strip(p.head), CRLF))
                 one  == CHOOSE k \in DOMAIN h : TRUE
                 this ==
                     IF Cardinality(DOMAIN h) = 1
                            /\ find(h[one], MULTIPART_MIXED, 0) # -1
                     THEN IF H_CONTENT_TYPE \notin DOMAIN h
                          THEN Parts("KeyError", <<>>)
                          ELSE LET cbound == BOUNDARY_REGEX_match(h[H_CONTENT_TYPE])
                               IN  IF ~cbound.matched
                                   THEN Parts("RiakngError", <<>>)
                                   ELSE LET sub == parse_linked_object_part(
                                                       cbound.g1, p.tail)
                                        IN  Parts(sub.exc, << sub.parts >>)
                     ELSE parse_object_part(h, p.tail)
             IN  IF this.exc # "" THEN Parts(this.exc, <<>>)
                 ELSE LET rest == linked_parts(content, startsep, start)
                      IN  Parts(rest.exc, this.parts \o rest.parts)

parse_linked_object_part(boundary, content) ==
    linked_parts(strip(content), <<"-", "-">> \o boundary, 0)

\* walk_link() on the response, whose body is the multipart text
http_walk_link(response) ==
    IF assert_response_code(response, OK_STATUS)
    THEN HTTPRequestError(response)
    ELSE LET boundary == BOUNDARY_REGEX_match(response.headers["content-type"])
         IN  IF ~boundary.matched
             THEN Raise("RiakngError", 0, "There's a bug in riak or this client")
             ELSE LET r == parse_linked_object_part(boundary.g1, response.text)
                  IN  IF r.exc # "" THEN Raise(r.exc, 0, "")
                      ELSE Return([type |-> "list", items |-> r.parts])

-----------------------------------------------------------------------------
(* The store the transports talk to, and the calls made against it. *)

\* keys the caller names, and the keys the server generates, in order
UserKeys == {"k1"}

GenKeys == <<"g1", "g2", "g3">>

Keys == UserKeys \cup {GenKeys[i] : i \in 1..MaxAssigned}

NoHeaders == [n \in {} |-> ""]

VclockHeader == ("x-riak-vclock" :> "vc")

\* statuses with which the server turns a request down, leaving the store as
\* it is: every status that does not report the operation's outcome
Refusals(name) ==
    StatusCodes \ (CASE name = "get" -> {200, 300, 304}
                     [] name = "put" -> {200, 201, 204, 300}
                     [] name = "delete" -> {204, 404}
                     [] OTHER -> {200})

Refused(name) == {Response(st, NoHeaders, <<>>) : st \in Refusals(name)}

\* GET /riak/b/k: 404 for an absent key (a refusal), the value or
\* "not modified" for a single value, the sibling list for several
ServerGet(k) ==
    LET v == store[k]
    IN  (IF v = <<>> THEN {}
         ELSE IF Len(v) = 1
         THEN {Response(200, VclockHeader, v), Response(304, VclockHeader, <<>>)}
         ELSE {Response(300, VclockHeader, <<"Siblings:">> \o v)})
        \cup Refused("get")

\* the body of a store response to a write that asked for the object back
StoredBody(v, returnbody) ==
    IF ~returnbody THEN Response(204, NoHeaders, <<>>)
    ELSE IF Len(v) = 1 THEN Response(200, VclockHeader, v)
    ELSE Response(300, VclockHeader, <<"Siblings:">> \o v)

\* the number of values held under the keys of S
RECURSIVE Stored(_, _)
Stored(st, S) ==
    IF S = {} THEN 0
    ELSE LET k == CHOOSE x \in S : TRUE
         IN  Len(st[k]) + Stored(st, S \ {k})

HasRoom(st) == Stored(st, DOMAIN st) <= MaxStored

\* PUT /riak/b/k: the value replaces what is stored, or becomes a sibling
ServerPutKey(k, content, returnbody) ==
    LET news == {<<content>>}
                \cup (IF store[k] # <<>> THEN {Append(store[k], content)} ELSE {})
    IN  { [resp |-> StoredBody(v, returnbody),
           store |-> [store EXCEPT ![k] = v], assigned |-> assigned] :
              v \in {w \in news : HasRoom([store EXCEPT ![k] = w])} }
        \cup { [resp |-> r, store |-> store, assigned |-> assigned] : r \in Refused("put") }

\* POST /riak/b: the server generates the key and names it in Location; a
\* server at fault leaves the Location out
ServerPost(content, returnbody) ==
    (IF assigned < MaxAssigned
           /\ HasRoom([store EXCEPT ![GenKeys[assigned + 1]] = <<content>>])
     THEN LET g == GenKeys[assigned + 1]
          IN  { [resp |-> Response(201,
                              loc @@ (IF returnbody THEN VclockHeader ELSE NoHeaders),
                              IF returnbody THEN <<content>> ELSE <<>>),
                 store |-> [store EXCEPT ![g] = <<content>>],
                 assigned |-> assigned + 1] :
                    loc \in {("location" :> <<"riak", "b", g>>), NoHeaders} }
     ELSE {})
    \cup { [resp |-> r, store |-> store, assigned |-> assigned] : r \in Refused("put") }

\* DELETE /riak/b/k: 204 when the object was removed, 404 when it was absent
ServerDelete(k) ==
    { [resp |-> Response(IF store[k] # <<>> THEN 204 ELSE 404, NoHeaders, <<>>),
       store |-> [store EXCEPT ![k] = <<>>]] }
    \cup { [resp |-> r, store |-> store] : r \in Refused("delete") }

\* GET /buckets/b/index/...: some list of keys
ServerIndex ==
    {Response(200, NoHeaders, ks) : ks \in {<<>>, <<"k1">>}} \cup Refused("index")

\* a document found by a link walk: its key, its data and whether the part
\* names its location
WalkDoc(key, data, loc) == [key |-> key, data |-> data, loc |-> loc]

\* the boundary of the outer multipart body and of the body of phase i
OuterBoundary == <<"A">>

InnerBoundary(i) == <<"B", DigitChar[i + 1]>>

\* one document as a part of its phase
render_doc(boundary, doc) ==
    <<"-", "-">> \o boundary \o CRLF
        \o <<"X", "-", "R", "i", "a", "k", "-", "V", "c", "l", "o", "c", "k", ":", " ", "v", "c">> \o CRLF
        \o (IF doc.loc THEN <<"L", "o", "c", "a", "t", "i", "o", "n", ":", " ", "/", "r", "i", "a", "k", "/", "b", "/">> \o doc.key \o CRLF ELSE <<>>)
        \o <<"L", "i", "n", "k", ":", " ", "<", "/", "r", "i", "a", "k", "/", "b", ">", ";", " ", "r", "e", "l", "=", "\"", "u", "p", "\"">> \o CRLF
        \o CRLF \o doc.data \o CRLF

RECURSIVE render_docs(_, _)
render_docs(boundary, docs) ==
    IF docs = <<>> THEN <<>>
    ELSE render_doc(boundary, docs[1]) \o render_docs(boundary, Tail(docs))

\* phases i.. of the walk, each a part of the outer body holding a
\* multipart body of its own
RECURSIVE render_phases(_, _)
render_phases(phases, i) ==
    IF i > Len(phases) THEN <<>>
    ELSE <<"-", "-">> \o OuterBoundary \o CRLF
             \o <<"C", "o", "n", "t", "e", "n", "t", "-", "T", "y", "p", "e", ":", " ", "m", "u", "l", "t", "i", "p", "a", "r", "t", "/", "m", "i", "x", "e", "d", ";", " ", "b", "o", "u", "n", "d", "a", "r", "y", "=">> \o InnerBoundary(i) \o CRLF
             \o CRLF
             \o render_docs(InnerBoundary(i), phases[i])
             \o <<"-", "-">> \o InnerBoundary(i) \o <<"-", "-">> \o CRLF
             \o render_phases(phases, i + 1)

\* the server's multipart/mixed answer to a link walk
WalkResponse(phases) ==
    Response(200,
             ("content-type" :> MULTIPART_BOUNDARY_LITERAL \o OuterBoundary),
             CRLF \o render_phases(phases, 1)
                 \o <<"-", "-">> \o OuterBoundary \o <<"-", "-">> \o CRLF)

\* the key of the store as the text of a location
KeyText == ("k1" :> <<"k", "1">>) @@ ("g1" :> <<"g", "1">>)
               @@ ("g2" :> <<"g", "2">>) @@ ("g3" :> <<"g", "3">>)

\* GET /riak/b/k/_,_,1: a multipart body of one phase, empty or holding the
\* values stored under k, or a body that is not multipart
ServerWalkLink(k) ==
    (IF store[k] = <<>> THEN {}
     ELSE {WalkResponse(ph) :
               ph \in {<< <<>> >>,
                       << [n \in 1..Len(store[k]) |->
                              WalkDoc(KeyText[k], <<store[k][n]>>, TRUE)] >>}}
          \cup {Response(200, ("content-type" :> <<"t", "e", "x", "t", "/", "p", "l", "a", "i", "n">>), <<>>)})
    \cup Refused("walk_link")

\* the binary server's answer to a get: the stored values as content entries
ServerPBCGet(k) ==
    [content |-> store[k], has_vclock |-> store[k] # <<>>,
     has_unchanged |-> FALSE, unchanged |-> FALSE]

Call(name, transport, key, content, returnbody, accept, field, phases, issued) ==
    [name |-> name, transport |-> transport, key |-> key, content |-> content,
     returnbody |-> returnbody, accept |-> accept, field |-> field,
     phases |-> phases, issued |-> issued]

NoCall == Call("none", "none", "", "", FALSE, "None", <<>>, <<>>, 0)

HTTPPing(resp) ==
    /\ h_pc = "idle" /\ h_pc' = "returned"
    /\ h_op' = Call("ping", "http", "", "", FALSE, "None", <<>>, <<>>, 1)
    /\ h_resp' = resp
    /\ h_result' = Return(BoolValue(resp.status = 200))
    /\ UNCHANGED <<store, assigned, gone>>
    /\ UNCHANGED <<pbcVars, codecVars, linkVars, walkVars, ixVars>>

HTTPGet(k, accept, resp) ==
    /\ h_pc = "idle" /\ h_pc' = "returned"
    /\ h_op' = Call("get", "http", k, "", FALSE, accept, <<>>, <<>>, 1)
    /\ h_resp' = resp
    /\ h_result' = http_get(resp, accept)
    /\ UNCHANGED <<store, assigned, gone>>
    /\ UNCHANGED <<pbcVars, codecVars, linkVars, walkVars, ixVars>>

HTTPPut(k, content, returnbody, out) ==
    /\ h_pc = "idle" /\ h_pc' = "returned"
    /\ h_op' = Call("put", "http", k, content, returnbody, "None", <<>>, <<>>, 1)
    /\ h_resp' = out.resp
    /\ h_result' = http_put(k, out.resp, returnbody)
    /\ store' = out.store
    /\ assigned' = out.assigned
    /\ gone' = {g \in gone : out.store[g] = store[g]}
    /\ UNCHANGED <<pbcVars, codecVars, linkVars, walkVars, ixVars>>

HTTPDelete(k, out) ==
    /\ h_pc = "idle" /\ h_pc' = "returned"
    /\ h_op' = Call("delete", "http", k, "", FALSE, "None", <<>>, <<>>, 1)
    /\ h_resp' = out.resp
    /\ h_result' = http_delete(out.resp)
    /\ store' = out.store
    /\ gone' = IF http_delete(out.resp) = Return(BoolValue(TRUE))
               THEN gone \cup {k} ELSE gone
    /\ UNCHANGED assigned
    /\ UNCHANGED <<pbcVars, codecVars, linkVars, walkVars, ixVars>>

\* index() with a field name that passes the check made before the request
HTTPIndex(field, resp) ==
    /\ h_pc = "idle" /\ h_pc' = "returned"
    /\ index_field_ok(field)
    /\ h_op' = Call("index", "http", "", "", FALSE, "None", field, <<>>, 1)
    /\ h_resp' = resp
    /\ h_result' = http_index(resp)
    /\ UNCHANGED <<store, assigned, gone>>
    /\ UNCHANGED <<pbcVars, codecVars, linkVars, walkVars, ixVars>>

\* index() with a field name that fails the check: it raises, no request made
HTTPIndexRejected(field) ==
    /\ h_pc = "idle" /\ h_pc' = "returned"
    /\ ~index_field_ok(field)
    /\ h_op' = Call("index", "http", "", "", FALSE, "None", field, <<>>, 0)
    /\ h_resp' = NoResponse
    /\ h_result' = Raise("RiakngError", 0, "2i fields must end with either _bin or _int.")
    /\ UNCHANGED <<store, assigned, gone>>
    /\ UNCHANGED <<pbcVars, codecVars, linkVars, walkVars, ixVars>>

\* the link phases a walk is asked to follow
LinkPhase(b, tag, keep) == [bucket |-> b, tag |-> tag, keep |-> keep]

\* the text pieces of one phase of the walk URL
RECURSIVE walk_link_phases(_)
walk_link_phases(link_phases) ==
    IF link_phases = <<>> THEN <<>>
    ELSE LET p == Head(link_phases)
         IN  <<"/", p.bucket, ",", p.tag, ",", IF p.keep THEN "1" ELSE "0">>
                 \o walk_link_phases(Tail(link_phases))

\* the requests walk_link sends: one GET of the URL naming every phase
walk_link_requests(key, link_phases) ==
    << <<"/riak/", "b", "/", key>> \o walk_link_phases(link_phases) >>

\* walks of 0..MaxPhases phases, the last phase alone kept
LinkPhases ==
    { [i \in 1..n |-> LinkPhase("_", "t", i = n)] : n \in 0..MaxPhases }

HTTPWalkLink(k, link_phases, resp) ==
    /\ h_pc = "idle" /\ h_pc' = "returned"
    /\ h_op' = Call("walk_link", "http", k, "", FALSE, "None", <<>>, link_phases,
                    Len(walk_link_requests(k, link_phases)))
    /\ h_resp' = resp
    /\ h_result' = http_walk_link(resp)
    /\ UNCHANGED <<store, assigned, gone>>
    /\ UNCHANGED <<pbcVars, codecVars, linkVars, walkVars, ixVars>>

\* PBCTransport.get() against the same store, the frames delivered intact
PBCGet(k) ==
    LET m == ServerPBCGet(k)
    IN  /\ h_pc = "idle" /\ h_pc' = "returned"
        /\ h_op' = Call("get", "pbc", k, "", FALSE, "None", <<>>, <<>>, 1)
        /\ h_resp' = [status |-> 0, reason |-> "", headers |-> NoHeaders,
                      text |-> m.content, code |-> GET_RESP]
        /\ h_result' = pbc_get_response(GET_RESP,
                           construct_protobuf_object(
                               <<GET_RESP>> \o SerializeRpbGetResp(m), "RpbGetResp"))
        /\ UNCHANGED <<store, assigned, gone>>
        /\ UNCHANGED <<pbcVars, codecVars, linkVars, walkVars, ixVars>>

\* the operations PBCTransport does not define and so takes from Transport
InheritedOperations == {"put", "delete", "index", "walk_link"}

\* one of those operations called on a PBCTransport: Transport's method runs
PBCInherited(name) ==
    /\ h_pc = "idle" /\ h_pc' = "returned"
    /\ h_op' = Call(name, "pbc", "k1", "", FALSE, "None", <<>>, <<>>, 0)
    /\ h_resp' = NoResponse
    /\ h_result' = Raise("NotImplementedError", 0, "")
    /\ UNCHANGED <<store, assigned, gone>>
    /\ UNCHANGED <<pbcVars, codecVars, linkVars, walkVars, ixVars>>

\* index field names explored
IndexFields ==
    { <<"f", "o", "o">>, <<"a", "_", "b", "i", "n">>, <<"a", "b", "_", "i", "n", "t">>,
      <<"p", "o", "i", "n", "t">>, <<"c", "a", "b", "i", "n">>, <<"_", "i", "n", "t">>,
      <<>> }

InitHTTP ==
    /\ store = [k \in Keys |-> <<>>]
    /\ assigned = 0
    /\ gone = {}
    /\ h_op = NoCall
    /\ h_resp = NoResponse
    /\ h_result = NoResult
    /\ h_pc = "idle"

IdleHTTP == InitHTTP

\* the caller takes the outcome; the transport is ready for the next call
HTTPReturn ==
    /\ h_pc = "returned" /\ h_pc' = "idle"
    /\ h_op' = NoCall
    /\ h_resp' = NoResponse
    /\ h_result' = NoResult
    /\ UNCHANGED <<store, assigned, gone>>
    /\ UNCHANGED <<pbcVars, codecVars, linkVars, walkVars, ixVars>>

NextHTTP ==
    \/ \E resp \in {Response(st, NoHeaders, <<>>) : st \in StatusCodes} : HTTPPing(resp)
    \/ \E k \in Keys, accept \in {"None", "multipart/mixed"} :
           \E resp \in ServerGet(k) : HTTPGet(k, accept, resp)
    \/ \E k \in Keys, content \in Values, returnbody \in BOOLEAN :
           \E out \in ServerPutKey(k, content, returnbody) :
               HTTPPut(k, content, returnbody, out)
    \/ \E content \in Values, returnbody \in BOOLEAN :
           \E out \in ServerPost(content, returnbody) :
               HTTPPut(NoneKey, content, returnbody, out)
    \/ \E k \in Keys : \E out \in ServerDelete(k) : HTTPDelete(k, out)
    \/ \E field \in IndexFields : \E resp \in ServerIndex : HTTPIndex(field, resp)
    \/ \E field \in IndexFields : HTTPIndexRejected(field)
    \/ \E k \in Keys, link_phases \in LinkPhases :
           \E resp \in ServerWalkLink(k) : HTTPWalkLink(k, link_phases, resp)
    \/ \E k \in Keys : PBCGet(k)
    \/ \E name \in InheritedOperations : PBCInherited(name)
    \/ HTTPReturn

-----------------------------------------------------------------------------
(* walk_link() over the multipart bodies of walks of several phases. *)

\* documents a walk may find
WalkDocs ==
    { WalkDoc(<<"k", "1">>, <<"d">>, TRUE), WalkDoc(<<"k", "2">>, <<>>, FALSE) }

NoScan == [from |-> -1, to |-> 0]

\* the server answers the request with the documents it found
WalkServe ==
    /\ w_pc = "start"
    /\ w_resp' = WalkResponse(w_phases)
    /\ w_pc' = "served"
    /\ UNCHANGED <<w_phases, w_result, w_stack, w_scan>>
    /\ UNCHANGED <<pbcVars, codecVars, httpVars, linkVars, ixVars>>

\* walk_link() on that response
WalkLink ==
    /\ w_pc = "served"
    /\ w_result' = http_walk_link(w_resp)
    /\ w_pc' = "walked"
    /\ UNCHANGED <<w_phases, w_resp, w_stack, w_scan>>
    /\ UNCHANGED <<pbcVars, codecVars, httpVars, linkVars, ixVars>>

InitWalk ==
    /\ w_phases \in SeqsUpTo(SeqsUpTo(WalkDocs, MaxWalkDocs), MaxPhases)
    /\ w_resp = NoResponse
    /\ w_result = NoResult
    /\ w_pc = "start"
    /\ w_stack = <<>>
    /\ w_scan = NoScan

IdleWalk ==
    /\ w_phases = <<>>
    /\ w_resp = NoResponse
    /\ w_result = NoResult
    /\ w_pc = "start"
    /\ w_stack = <<>>
    /\ w_scan = NoScan

NextWalk ==
    \/ WalkServe
    \/ WalkLink

\* the closing delimiter of a multipart body
Closing(boundary) == <<"-", "-">> \o boundary \o <<"-", "-">>

\* text without the first occurrence of piece and, when truncate is set,
\* without anything behind it
Without(text, piece, truncate) ==
    LET at == find(text, piece, 0)
    IN  IF at = -1 THEN text
        ELSE slice(text, 0, at)
                 \o (IF truncate THEN <<>>
                     ELSE slice(text, at + Len(piece), Len(text)))

\* the ways a multipart answer arrives malformed: a body that is not the
\* multipart text its Content-Type announces, a body cut off before its
\* closing delimiter, a phase whose own closing delimiter is missing
Damages == {"no_marker", "no_close", "no_inner_close"}

Damaged(response, phases, damage) ==
    [response EXCEPT !.text =
        CASE damage = "no_marker" -> CRLF \o <<"o", "o", "p", "s">> \o CRLF
          [] damage = "no_close" -> Without(@, Closing(OuterBoundary), TRUE)
          [] damage = "no_inner_close" ->
                 Without(@, Closing(InnerBoundary(Len(phases))) \o CRLF, FALSE)]

\* the server's answer reaches the client malformed
WalkServeDamaged(damage) ==
    /\ w_pc = "start"
    /\ damage = "no_inner_close" => w_phases # <<>>
    /\ w_resp' = Damaged(WalkResponse(w_phases), w_phases, damage)
    /\ w_pc' = "served"
    /\ UNCHANGED <<w_phases, w_result, w_stack, w_scan>>
    /\ UNCHANGED <<pbcVars, codecVars, httpVars, linkVars, ixVars>>

NextWalkDamaged ==
    \/ \E damage \in Damages : WalkServeDamaged(damage)
    \/ WalkLink

-----------------------------------------------------------------------------
(* http.py: _parse_linked_object_part, one loop iteration at a step. *)

\* a scan that stays on the separator it has found
scan_start_on_separator(content, startsep, start) == find(content, startsep, start)

\* start = content.find(startsep, start) + seplen
scan_start(content, startsep, start) ==
    find(content, startsep, start) + Len(startsep)

\* a call of _parse_linked_object_part(boundary, body) about to enter its loop
Activation(boundary, body) ==
    [startsep |-> <<"-", "-">> \o boundary, body |-> body, content |-> strip(body),
     start |-> 0, parts |-> <<>>]

\* the innermost running call
Innermost == w_stack[Len(w_stack)]

\* headers, sep, c = content[start:end].strip().partition("\r\n\r\n")
scanned_part(content, start, end) ==
    partition(strip(slice(content, start, end)), CRLF \o CRLF)

\* the dict h built from the header lines of the part
scanned_headers(p) == part_headers(split_str(strip(p.head), CRLF))

\* len(h) == 1 and "multipart/mixed" in h.values()[0]
is_link_phase(h) ==
    /\ Cardinality(DOMAIN h) = 1
    /\ find(h[CHOOSE k \in DOMAIN h : TRUE], MULTIPART_MIXED, 0) # -1

\* the exception one iteration raises on the part with headers h and content
\* c, "" when it raises none
part_exception(h, c) ==
    IF is_link_phase(h)
    THEN IF H_CONTENT_TYPE \notin DOMAIN h THEN "KeyError"
         ELSE IF ~BOUNDARY_REGEX_match(h[H_CONTENT_TYPE]).matched THEN "RiakngError"
         ELSE ""
    ELSE parse_object_part(h, c).exc

\* bodies and boundaries handed to the parser directly
BodyChars == {"-", "A"}

Boundaries == {<<"A">>, <<"-">>}

\* the caller of walk_link has a served response: walk_link calls the parser
\* with the boundary of the Content-Type and the body
ParseServed ==
    /\ w_pc = "served"
    /\ ~assert_response_code(w_resp, OK_STATUS)
    /\ BOUNDARY_REGEX_match(w_resp.headers["content-type"]).matched
    /\ w_stack' = << Activation(BOUNDARY_REGEX_match(w_resp.headers["content-type"]).g1,
                                w_resp.text) >>
    /\ w_pc' = "parsing"
    /\ UNCHANGED <<w_phases, w_resp, w_result, w_scan>>
    /\ UNCHANGED <<pbcVars, codecVars, httpVars, linkVars, ixVars>>

\* _parse_linked_object_part(boundary, body) called on any text
ParseText(boundary, body) ==
    /\ w_pc = "start"
    /\ w_phases = <<>>
    /\ w_stack' = << Activation(boundary, body) >>
    /\ w_pc' = "parsing"
    /\ UNCHANGED <<w_phases, w_resp, w_result, w_scan>>
    /\ UNCHANGED <<pbcVars, codecVars, httpVars, linkVars, ixVars>>

\* return parts: to the caller of the outermost call, or into the parts of
\* the calling iteration
ParseReturns(parts) ==
    IF Len(w_stack) = 1
    THEN /\ w_stack' = <<>>
         /\ w_result' = Return([type |-> "list", items |-> parts])
         /\ w_pc' = "walked"
    ELSE /\ w_stack' = [SubSeq(w_stack, 1, Len(w_stack) - 1)
                            EXCEPT ![Len(w_stack) - 1].parts = Append(@, parts)]
         /\ UNCHANGED <<w_result, w_pc>>

\* an iteration that finds no further part: break, then return parts
ParseBreak ==
    /\ w_pc = "parsing"
    /\ LET f     == Innermost
           start == scan_start(f.content, f.startsep, f.start)
           end   == find(f.content, f.startsep, start)
       IN  /\ start = -1 \/ end = -1
           /\ w_scan' = [from |-> f.start, to |-> start]
           /\ ParseReturns(f.parts)
    /\ UNCHANGED <<w_phases, w_resp>>
    /\ UNCHANGED <<pbcVars, codecVars, httpVars, linkVars, ixVars>>

\* an iteration whose part is a link phase: the recursive call on its content
ParseNested ==
    /\ w_pc = "parsing"
    /\ LET f     == Innermost
           start == scan_start(f.content, f.startsep, f.start)
           end   == find(f.content, f.startsep, start)
           p     == scanned_part(f.content, start, end)
           h     == scanned_headers(p)
       IN  /\ ~(start = -1 \/ end = -1)
           /\ is_link_phase(h)
           /\ part_exception(h, p.tail) = ""
           /\ w_scan' = [from |-> f.start, to |-> start]
           /\ w_stack' = Append([w_stack EXCEPT ![Len(w_stack)].start = start],
                                Activation(BOUNDARY_REGEX_match(h[H_CONTENT_TYPE]).g1,
                                           p.tail))
    /\ UNCHANGED <<w_phases, w_resp, w_result, w_pc>>
    /\ UNCHANGED <<pbcVars, codecVars, httpVars, linkVars, ixVars>>

\* an iteration whose part is an object: _parse_object, then parts.append
ParseObject ==
    /\ w_pc = "parsing"
    /\ LET f     == Innermost
           start == scan_start(f.content, f.startsep, f.start)
           end   == find(f.content, f.startsep, start)
           p     == scanned_part(f.content, start, end)
           h     == scanned_headers(p)
       IN  /\ ~(start = -1 \/ end = -1)
           /\ ~is_link_phase(h)
           /\ part_exception(h, p.tail) = ""
           /\ w_scan' = [from |-> f.start, to |-> start]
           /\ w_stack' = [w_stack EXCEPT
                              ![Len(w_stack)].start = start,
                              ![Len(w_stack)].parts = @ \o parse_object_part(h, p.tail).parts]
    /\ UNCHANGED <<w_phases, w_resp, w_result, w_pc>>
    /\ UNCHANGED <<pbcVars, codecVars, httpVars, linkVars, ixVars>>

\* an iteration that raises: the exception leaves every running call
ParseRaise ==
    /\ w_pc = "parsing"
    /\ LET f     == Innermost
           start == scan_start(f.content, f.startsep, f.start)
           end   == find(f.content, f.startsep, start)
           p     == scanned_part(f.content, start, end)
           h     == scanned_headers(p)
       IN  /\ ~(start = -1 \/ end = -1)
           /\ part_exception(h, p.tail) # ""
           /\ w_scan' = [from |-> f.start, to |-> start]
           /\ w_result' = Raise(part_exception(h, p.tail), 0, "")
    /\ w_stack' = <<>>
    /\ w_pc' = "walked"
    /\ UNCHANGED <<w_phases, w_resp>>
    /\ UNCHANGED <<pbcVars, codecVars, httpVars, linkVars, ixVars>>

ParseIteration == ParseBreak \/ ParseNested \/ ParseObject \/ ParseRaise

NextParse ==
    \/ WalkServe
    \/ \E damage \in Damages : WalkServeDamaged(damage)
    \/ ParseServed
    \/ \E boundary \in Boundaries, body \in SeqsUpTo(BodyChars, MaxBody) :
           ParseText(boundary, body)
    \/ ParseBreak
    \/ ParseNested
    \/ ParseObject
    \/ ParseRaise

-----------------------------------------------------------------------------
(* http.py: index entries, from put()'s headers to _parse_object. *)

\* a Python value that is an int or a str
IntValue(n) == [t |-> "int", n |-> n, s |-> <<>>]

StrValue(s) == [t |-> "str", n |-> 0, s |-> s]

\* str(n) for n >= 0
RECURSIVE str_nat(_)
str_nat(n) ==
    IF n < 10 THEN <<DigitChar[n + 1]>>
    ELSE str_nat(n \div 10) \o <<DigitChar[(n % 10) + 1]>>

\* str(field_value)
str(v) ==
    IF v.t = "str" THEN v.s
    ELSE IF v.n < 0 THEN <<"-">> \o str_nat(-v.n) ELSE str_nat(v.n)

\* TRUE iff int(t) raises no ValueError
int_ok(t) ==
    LET u == strip(t)
        d == IF u # <<>> /\ u[1] \in {"-", "+"} THEN Tail(u) ELSE u
    IN  d # <<>> /\ \A i \in 1..Len(d) : d[i] \in Digits

RECURSIVE nat_of(_)
nat_of(d) ==
    IF d = <<>> THEN 0
    ELSE nat_of(SubSeq(d, 1, Len(d) - 1)) * 10
             + (CHOOSE n \in 0..9 : DigitChar[n + 1] = d[Len(d)])

\* int(t)
int(t) ==
    LET u == strip(t)
    IN  IF u[1] = "-" THEN 0 - nat_of(Tail(u))
        ELSE IF u[1] = "+" THEN nat_of(Tail(u))
        ELSE nat_of(u)

\* sep.join(values)
RECURSIVE join(_, _)
join(values, sep) ==
    IF values = <<>> THEN <<>>
    ELSE IF Len(values) = 1 THEN values[1]
    ELSE values[1] \o sep \o join(Tail(values), sep)

X_RIAK_INDEX_ == <<"X", "-", "R", "i", "a", "k", "-", "I", "n", "d", "e", "x", "-">>

x_riak_index == <<"x", "-", "r", "i", "a", "k", "-", "i", "n", "d", "e", "x">>

\* put(): index_headers after the loop over the entries, header name to the
\* list of the texts of its values
RECURSIVE index_header_lists(_)
index_header_lists(indexes) ==
    IF indexes = <<>> THEN <<>>
    ELSE LET prev == index_header_lists(SubSeq(indexes, 1, Len(indexes) - 1))
             en   == indexes[Len(indexes)]
             name == X_RIAK_INDEX_ \o en.field
         IN  [x \in DOMAIN prev \cup {name} |->
                 IF x = name
                 THEN (IF name \in DOMAIN prev THEN prev[name] ELSE <<>>)
                          \o <<str(en.value)>>
                 ELSE prev[x]]

\* put(): the X-Riak-Index-* headers sent, the values of a field joined
index_headers(indexes) ==
    LET lists == index_header_lists(indexes)
    IN  [name \in DOMAIN lists |-> join(lists[name], <<",", " ">>)]

\* the headers as they come back: header names are case-insensitive on the
\* wire and the server writes them in lower case
wire_headers(h) ==
    [k \in {lower(n) : n \in DOMAIN h} |-> h[CHOOSE n \in DOMAIN h : lower(n) = k]]

\* _parse_object: the values of one x-riak-index header
parse_index_values(header_key, header_value) ==
    LET i == split_str(header_value, <<",", " ">>)
    IN  IF LastN(header_key, 4) = <<"_", "i", "n", "t">>
        THEN [n \in 1..Len(i) |-> IntValue(int(i[n]))]
        ELSE [n \in 1..Len(i) |-> StrValue(i[n])]

\* _parse_object: r["indexes"]; exc is "ValueError" when int() fails
parse_indexes(headers) ==
    LET keys == {k \in DOMAIN headers : StartsWithAt(k, x_riak_index, 1)}
        bad  == \E k \in keys :
                    /\ LastN(k, 4) = <<"_", "i", "n", "t">>
                    /\ LET i == split_str(headers[k], <<",", " ">>)
                       IN  \E n \in 1..Len(i) : ~int_ok(i[n])
    IN  IF bad THEN [exc |-> "ValueError", indexes |-> <<>>]
        ELSE [exc |-> "",
              indexes |-> [f \in {slice(k, 13, Len(k)) : k \in keys} |->
                              LET k == CHOOSE x \in keys : slice(x, 13, Len(x)) = f
                              IN  parse_index_values(k, headers[k])]]

\* put() building the index headers from its indexes argument and issuing
\* its request with them; no entry is looked at before the request
IndexBuild ==
    /\ i_pc = "start"
    /\ i_headers' = index_headers(i_indexes)
    /\ i_issued' = i_issued + 1
    /\ i_pc' = "built"
    /\ UNCHANGED <<i_indexes, i_parsed>>
    /\ UNCHANGED <<pbcVars, codecVars, httpVars, linkVars, walkVars>>

\* _parse_object reading the entries back from the headers of the response
IndexParse ==
    /\ i_pc = "built"
    /\ i_parsed' = parse_indexes(wire_headers(i_headers))
    /\ i_pc' = "parsed"
    /\ UNCHANGED <<i_indexes, i_headers, i_issued>>
    /\ UNCHANGED <<pbcVars, codecVars, httpVars, linkVars, walkVars>>

\* an index entry as put() takes it
IndexEntry(field, value) == [field |-> field, value |-> value]

\* index entries explored
IndexEntries ==
    { IndexEntry(<<"f", "_", "b", "i", "n">>, StrValue(<<"a">>)),
      IndexEntry(<<"f", "_", "b", "i", "n">>, StrValue(<<"b", ",", " ", "c">>)),
      IndexEntry(<<"f", "_", "b", "i", "n">>, StrValue(<<>>)),
      IndexEntry(<<"g", "_", "b", "i", "n">>, StrValue(<<"a">>)),
      IndexEntry(<<"n", "_", "i", "n", "t">>, IntValue(7)),
      IndexEntry(<<"n", "_", "i", "n", "t">>, IntValue(-12)),
      IndexEntry(<<"f", "o", "o">>, StrValue(<<"a">>)) }

InitIndexes ==
    /\ i_indexes \in SeqsUpTo(IndexEntries, MaxIndexes)
    /\ i_headers = <<>>
    /\ i_parsed = [exc |-> "", indexes |-> <<>>]
    /\ i_pc = "start"
    /\ i_issued = 0

IdleIndexes ==
    /\ i_indexes = <<>>
    /\ i_headers = <<>>
    /\ i_parsed = [exc |-> "", indexes |-> <<>>]
    /\ i_pc = "start"
    /\ i_issued = 0

NextIndexes ==
    \/ IndexBuild
    \/ IndexParse

-----------------------------------------------------------------------------
(* The specifications. *)

InitSpecPBC == InitPBC /\ IdleCodec /\ IdleHTTP /\ IdleLinks /\ IdleWalk /\ IdleIndexes

SpecPBC == InitSpecPBC /\ [][NextPBC]_vars

InitSpecPBCSession ==
    IdlePBC /\ IdleCodec /\ IdleHTTP /\ IdleLinks /\ IdleWalk /\ IdleIndexes

SpecPBCSession == InitSpecPBCSession /\ [][NextPBCSession]_vars

InitSpecCodec == IdlePBC /\ InitCodec /\ IdleHTTP /\ IdleLinks /\ IdleWalk /\ IdleIndexes

SpecCodec == InitSpecCodec /\ [][NextCodec]_vars

SpecPeerFrames == InitSpecCodec /\ [][NextPeerFrames]_vars

InitSpecHTTP == IdlePBC /\ IdleCodec /\ InitHTTP /\ IdleLinks /\ IdleWalk /\ IdleIndexes

SpecHTTP == InitSpecHTTP /\ [][NextHTTP]_vars

InitSpecLinks == IdlePBC /\ IdleCodec /\ IdleHTTP /\ InitLinks /\ IdleWalk /\ IdleIndexes

SpecLinks == InitSpecLinks /\ [][NextLinks]_vars

InitSpecWalk == IdlePBC /\ IdleCodec /\ IdleHTTP /\ IdleLinks /\ InitWalk /\ IdleIndexes

SpecWalk == InitSpecWalk /\ [][NextWalk]_vars

SpecWalkDamaged == InitSpecWalk /\ [][NextWalkDamaged]_vars

\* the interpreter keeps running a loop it is in: weak fairness of
\* ParseIteration, with ENABLED <<ParseIteration>>_vars written as the state
\* predicate it equals, since one of the four iterations can be taken
\* whenever a call of the parser is running
ParserRuns == []<>(w_pc # "parsing") \/ []<><<ParseIteration>>_vars

\* walks whose documents are all of one kind
InitParse ==
    /\ InitWalk
    /\ \E d \in WalkDocs : \A i \in 1..Len(w_phases) :
           \A j \in 1..Len(w_phases[i]) : w_phases[i][j] = d

InitSpecParse ==
    IdlePBC /\ IdleCodec /\ IdleHTTP /\ IdleLinks /\ InitParse /\ IdleIndexes

SpecParse == InitSpecParse /\ [][NextParse]_vars /\ ParserRuns

InitSpecIndexes ==
    IdlePBC /\ IdleCodec /\ IdleHTTP /\ IdleLinks /\ IdleWalk /\ InitIndexes

SpecIndexes == InitSpecIndexes /\ [][NextIndexes]_vars

\* a client that works with one transport, binary or HTTP: the steps of
\* NextPBC while the HTTP side is untouched, those of NextHTTP while the
\* binary side is
InitSpecEither == InitPBC /\ IdleCodec /\ InitHTTP /\ IdleLinks /\ IdleWalk /\ IdleIndexes

NextEither ==
    \/ IdleHTTP /\ (\E o \in {"ping", "get"} : PBCCall(o))
    \/ IdleHTTP /\ SendAttemptOk
    \/ IdleHTTP /\ (\E err \in SocketErrors : SendAttemptConnectFail(err))
    \/ IdleHTTP /\ (\E err \in SocketErrors : SendAttemptSendFail(err))
    \/ IdleHTTP /\ SendLoopExhausted
    \/ IdleHTTP /\ SendPacketExit
    \/ IdleHTTP /\ SendMessageReturn
    \/ IdleHTTP /\ (\E rep \in Replies, dels \in Deliveries, shape \in Shapes :
               PBCRecvMessage(rep, dels, shape))
    \/ IdleHTTP /\ (\E err \in SocketErrors, late \in LateReplies : PBCRecvSocketError(err, late))
    \/ IdleHTTP /\ PBCReturn
    \/ IdleHTTP /\ (\E err \in SocketErrors \cup {"None"} : PBCConnect(err))
    \/ IdleHTTP /\ PBCClose
    \/ IdlePBC /\ (\E resp \in {Response(st, NoHeaders, <<>>) : st \in StatusCodes} : HTTPPing(resp))
    \/ IdlePBC /\ (\E k \in Keys, accept \in {"None", "multipart/mixed"} :
               \E resp \in ServerGet(k) : HTTPGet(k, accept, resp))
    \/ IdlePBC /\ (\E k \in Keys, content \in Values, returnbody \in BOOLEAN :
               \E out \in ServerPutKey(k, content, returnbody) :
                   HTTPPut(k, content, returnbody, out))
    \/ IdlePBC /\ (\E content \in Values, returnbody \in BOOLEAN :
               \E out \in ServerPost(content, returnbody) :
                   HTTPPut(NoneKey, content, returnbody, out))
    \/ IdlePBC /\ (\E k \in Keys : \E out \in ServerDelete(k) : HTTPDelete(k, out))
    \/ IdlePBC /\ (\E field \in IndexFields : \E resp \in ServerIndex : HTTPIndex(field, resp))
    \/ IdlePBC /\ (\E field \in IndexFields : HTTPIndexRejected(field))
    \/ IdlePBC /\ (\E k \in Keys, link_phases \in LinkPhases :
               \E resp \in ServerWalkLink(k) : HTTPWalkLink(k, link_phases, resp))
    \/ IdlePBC /\ (\E k \in Keys : PBCGet(k))
    \/ IdlePBC /\ (\E name \in InheritedOperations : PBCInherited(name))
    \/ IdlePBC /\ HTTPReturn

SpecEither == InitSpecEither /\ [][NextEither]_vars

-----------------------------------------------------------------------------
(* The exception hierarchy of riakng/core/exceptions.py, as the tests and   *)
(* the error taxonomy use it: the request errors of both transports are     *)
(* RequestErrors.                                                           *)

RequestErrors == {"HTTPRequestError", "PBCRequestError"}

-----------------------------------------------------------------------------
(* The claims. *)

\* C1: retry bound of send_packet.  For every n >= 1, when the first n-1
\* attempts fail with a connection-dead error and the n-th succeeds, with
\* max_attempt = n the call returns normally, the packet delivered once; for
\* every n >= 2, with max_attempt = n-1 and the same n-1 failures the call
\* raises the last socket error observed.
C1_RetryBound ==
    sp \in {"return", "raise"} =>
        /\ \A n \in 1..(MaxAttempt + 1) :
               ( /\ max_attempt = n
                 /\ Len(hist) = n
                 /\ hist[n] = "ok"
                 /\ \A i \in 1..(n - 1) : hist[i] \in CONN_CLOSED_ERRORS )
               => /\ sp = "return"
                  /\ sent = 1
                  /\ pc = "recv" => sock = "open"
        /\ \A n \in 2..(MaxAttempt + 2) :
               ( /\ max_attempt = n - 1
                 /\ Len(hist) = n - 1
                 /\ \A i \in 1..(n - 1) : hist[i] \in CONN_CLOSED_ERRORS )
               => /\ sp = "raise"
                  /\ sent = 0
                  /\ result = Raise("socket.error", 0, hist[n - 1])

\* two connection-dead failures, then the third attempt of three delivers
C1_Witness ==
    /\ max_attempt = 3
    /\ sp = "return"
    /\ hist = <<"ECONNRESET", "EPIPE", "ok">>
    /\ sent = 1

C3_Original ==
    (pc = "done" /\ op = "get" /\ reply.decoded /\ reply.code = GET_RESP) =>
        LET content == RpbGetResp(reply.payload).content
        IN  /\ content = <<>> => (result.kind = "raise" /\ result.status = 404)
            /\ content # <<>> =>
                   /\ result.kind = "return"
                   /\ result.value.type = "dict"
                   /\ "siblings" \in DOMAIN result.value.d
                   /\ Len(result.value.d["siblings"]) = Len(content)

\* the number of representations a get response carries
Entries(resp) ==
    IF resp.code = GET_RESP THEN Len(resp.text)
    ELSE IF resp.status = 200 THEN 1
    ELSE IF resp.status = 300 THEN Len(resp.text) - 1
    ELSE 0

\* C4: every result get() returns, on either transport, has status
\* multiple_choice iff its siblings sequence has more than one element; a
\* 1-entry response gives status ok with 1 sibling, a 2-entry response status
\* multiple_choice with 2 siblings.
C4_Original ==
    h_op.name = "get" =>
        /\ h_result.kind = "return" =>
               /\ h_result.value.type = "dict"
               /\ {"status", "siblings"} \subseteq DOMAIN h_result.value.d
               /\ (h_result.value.d["status"] = "multiple_choice")
                      <=> (Len(h_result.value.d["siblings"]) > 1)
        /\ Entries(h_resp) \in {1, 2} =>
               /\ h_result.kind = "return"
               /\ h_result.value.type = "dict"
               /\ {"status", "siblings"} \subseteq DOMAIN h_result.value.d
               /\ Len(h_result.value.d["siblings"]) = Entries(h_resp)
               /\ h_result.value.d["status"]
                      = IF Entries(h_resp) = 1 THEN "ok" ELSE "multiple_choice"

\* C5: a successful single-representation read, by get() of a key holding d
\* or by put() of d with returnbody, returns status ok and a siblings field
\* whose first element is the object, its data equal to d.
C5_Original ==
    ( \/ h_op.name = "get" /\ Entries(h_resp) = 1
      \/ h_op.name = "put" /\ h_op.returnbody /\ h_resp.status = 200 ) =>
        /\ h_result.kind = "return"
        /\ h_result.value.type = "dict"
        /\ {"status", "siblings"} \subseteq DOMAIN h_result.value.d
        /\ h_result.value.d["status"] = "ok"
        /\ Len(h_result.value.d["siblings"]) >= 1
        /\ h_result.value.d["siblings"][1].data = h_resp.text

\* C6: once delete(b, k) has returned True and no later put wrote k, a get of
\* k raises a RequestError, on either transport.
C6_Original ==
    (h_op.name = "get" /\ h_op.key \in gone) =>
        (h_result.kind = "raise" /\ h_result.exc \in RequestErrors)

\* C7: delete() returns True for the statuses 204 and 404, raises a request
\* error for every other status, and never returns False.
C7_DeleteReturnsTrue ==
    (h_op.name = "delete" /\ h_op.transport = "http") =>
        /\ h_resp.status \in {204, 404} => h_result = Return(BoolValue(TRUE))
        /\ h_resp.status \notin {204, 404} =>
               /\ h_result.kind = "raise"
               /\ h_result.exc = "HTTPRequestError"
               /\ h_result.status = h_resp.status
        /\ h_result # Return(BoolValue(FALSE))

\* delete of an absent key: the server says 404 and delete returns True
C7_Witness ==
    /\ h_op.name = "delete"
    /\ h_resp.status = 404
    /\ store[h_op.key] = <<>>
    /\ h_result = Return(BoolValue(TRUE))

\* the statuses each HTTP operation expects
ExpectedStatuses(name) ==
    CASE name = "get" -> {200, 300, 304}
      [] name = "put" -> {200, 201, 204, 300}
      [] name = "delete" -> {204, 404}
      [] name = "index" -> {200}
      [] name = "walk_link" -> {200}

\* C8: for get, put, delete, index and walk_link over HTTP, a response whose
\* status is outside the operation's expected set raises a request error
\* carrying the raw status code and the reason text; no result is returned.
C8_UnexpectedStatusRaises ==
    ( /\ h_op.transport = "http"
      /\ h_op.name \in {"get", "put", "delete", "index", "walk_link"}
      /\ h_op.issued = 1
      /\ h_resp.status \notin ExpectedStatuses(h_op.name) ) =>
        /\ h_result.kind = "raise"
        /\ h_result.exc = "HTTPRequestError"
        /\ h_result.status = h_resp.status
        /\ h_result.reason = h_resp.reason
        /\ h_resp.reason = Reason[h_resp.status]

\* a put answered with 304, which get expects and put does not
C8_Witness ==
    /\ h_op.name = "put"
    /\ h_resp.status = 304
    /\ h_result = Raise("HTTPRequestError", 304, "Not Modified")

\* C9: index() rejects every field name that does not end in _bin or _int
\* with a configuration error, issuing no request; a request is issued only
\* for fields ending in one of the two suffixes.
C9_Original ==
    (h_op.name = "index" /\ h_op.transport = "http") =>
        LET suffixed == LastN(h_op.field, 4)
                            \in {<<"_", "b", "i", "n">>, <<"_", "i", "n", "t">>}
        IN  /\ ~suffixed => ( /\ h_result.kind = "raise"
                              /\ h_result.exc = "RiakngError"
                              /\ h_op.issued = 0 )
            /\ h_op.issued = 1 => suffixed

\* C10: building the Link header as put() does and parsing it with
\* _parse_links recovers the original list of (bucket, key, tag), tag
\* optional, in the original order.
C10_Original == l_pc = "parsed" => l_parsed = l_links

\* C11: for a well-formed multipart response nested one level per phase,
\* walk_link returns a sequence with one element per phase, in phase order,
\* each the sequence of the objects of that phase in the server's document
\* order, an object carrying its key when its part names a location; a phase
\* without documents gives an empty sequence.
C11_WalkStructure ==
    w_pc = "walked" =>
        /\ w_result.kind = "return"
        /\ w_result.value.type = "list"
        /\ LET l == w_result.value.items
           IN  /\ Len(l) = Len(w_phases)
               /\ \A i \in 1..Len(w_phases) :
                      /\ Len(l[i]) = Len(w_phases[i])
                      /\ \A j \in 1..Len(w_phases[i]) :
                             LET o   == l[i][j].d
                                 doc == w_phases[i][j]
                             IN  /\ o.data = doc.data
                                 /\ doc.loc => ("key" \in DOMAIN o /\ o.key = doc.key)
                                 /\ ~doc.loc => "key" \notin DOMAIN o

\* phase 1 with two documents and phase 2 with one gives [[d, d], [d]]
C11_Witness ==
    /\ w_pc = "walked"
    /\ Len(w_phases) = 2
    /\ Len(w_phases[1]) = 2 /\ w_phases[1][1] # w_phases[1][2]
    /\ Len(w_phases[2]) = 1 /\ w_phases[2][1].loc
    /\ w_result.kind = "return"
    /\ Len(w_result.value.items) = 2
    /\ Len(w_result.value.items[1]) = 2
    /\ Len(w_result.value.items[2]) = 1
    /\ w_result.value.items[2][1].d.key = <<"k", "1">>

\* C12: put() always returns a result that includes 'key': the caller's key
\* when one was supplied; the server-assigned key of the response's location
\* when the key was omitted; and when the key was omitted and the response
\* carries no location, put raises instead of returning an empty or missing
\* key.
C12_Original ==
    (h_op.name = "put" /\ h_op.transport = "http"
         /\ h_resp.status \in DOMAIN PUT_STATUS) =>
        LET located == "location" \in DOMAIN h_resp.headers
        IN  /\ h_result.kind = "return" =>
                   /\ "key" \in DOMAIN h_result.value.d
                   /\ h_op.key # NoneKey => h_result.value.d["key"] = h_op.key
                   /\ h_op.key = NoneKey =>
                          /\ located
                          /\ h_result.value.d["key"]
                                 = AfterLastSlash(h_resp.headers["location"])
                          /\ h_result.value.d["key"] \in DOMAIN store
            /\ (h_op.key = NoneKey /\ ~located) => h_result.kind = "raise"

\* C13: for every ordered list of index entries given to put(), encoding
\* them into X-Riak-Index-<field> headers and parsing those headers back with
\* _parse_object yields the mapping from each field to the list of its values
\* in the order given, integers for fields ending in _int and strings for the
\* other fields.
C13_Original ==
    i_pc = "parsed" =>
        /\ i_parsed.exc = ""
        /\ i_parsed.indexes =
               [f \in {i_indexes[n].field : n \in 1..Len(i_indexes)} |->
                   LET of_f(en) == en.field = f
                       entries  == SelectSeq(i_indexes, of_f)
                   IN  [n \in 1..Len(entries) |->
                           IF LastN(f, 4) = <<"_", "i", "n", "t">>
                           THEN entries[n].value
                           ELSE StrValue(str(entries[n].value))]]

\* C14: each of ping, get, put, delete, index and walk_link is implemented
\* by both transports, none failing as unimplemented, and returns a result of
\* the same shape on both: a get that returns gives a result dictionary.
C14_Original ==
    h_op.name \in {"ping", "get", "put", "delete", "index", "walk_link"} =>
        /\ ~(h_result.kind = "raise" /\ h_result.exc = "NotImplementedError"
                 /\ h_op.transport = "pbc")
        /\ (h_op.name = "get" /\ h_result.kind = "return") =>
               h_result.value.type = "dict"


\* C15: connect() and close() are idempotent.  connect() on a transport that
\* holds a socket opens no socket and leaves the held one in place; close()
\* on a Disconnected transport changes nothing and raises nothing; the second
\* of two equal calls in a row (for connect: meeting the same outcome of
\* socket.connect) leaves the state the first one left.
C15_Idempotent ==
    /\ (life.call = "connect" /\ life.sock0 # "None")
           => /\ ~life.opened
              /\ life.exc = "None"
              /\ sock = life.sock0
              /\ fds = life.fds0
    /\ (life.call = "close" /\ life.sock0 = "None")
           => /\ life.exc = "None"
              /\ sock = "None"
              /\ fds = life.fds0
    /\ (life.call # "none" /\ life.call = life.prev /\ life.exc = life.prev_exc)
           => /\ sock = life.sock0
              /\ fds = life.fds0

\* connect() has been called twice in a row and the transport is Connected
C15_Witness ==
    /\ life.call = "connect"
    /\ life.prev = "connect"
    /\ life.sock0 = "open"
    /\ sock = "open"

\* C16: every logical call makes one round trip.  An HTTP operation (ping,
\* get, put, delete, index with a field that is a name followed by _bin or
\* _int, walk_link
\* with any number of phases) issues one HTTP request; a binary ping or get
\* that returns has had its request frame delivered by one sendall and has
\* read one response frame, the whole of it and nothing behind it.
C16_OneRoundTrip ==
    /\ ( /\ h_op.transport = "http"
         /\ h_op.name \in {"ping", "get", "put", "delete", "index", "walk_link"}
         /\ h_op.name = "index" =>
                /\ Len(h_op.field) > 4
                /\ LastN(h_op.field, 4)
                       \in {<<"_", "b", "i", "n">>, <<"_", "i", "n", "t">>} )
           => h_op.issued = 1
    /\ (pc = "done" /\ op \in {"ping", "get"} /\ result.kind = "return")
           => /\ sent = 1
              /\ recvd = 1
              /\ rp.status = "ok"
              /\ Len(rp.stream) - Len(rp.rest) = 4 + Unpack32(Take(rp.stream, 4))

\* a binary ping that returned, its reply delivered in pieces
C16_Witness ==
    /\ pc = "done" /\ op = "ping"
    /\ result = Return(BoolValue(TRUE))
    /\ max_attempt = 2
    /\ rp.dels = <<4, 1>>
    /\ h_pc = "idle"

\* C17: send-path error classification.  In send_packet a socket error of
\* connect or sendall other than EHOSTUNREACH, ECONNRESET, EBADF, EPIPE
\* reaches the caller on the attempt where it occurs, no further attempt
\* made and nothing received; after one of those four the socket is closed,
\* and the next attempt finds no socket held and opens a new one; one call
\* makes at most max_attempt attempts.
C17_SendErrorClasses ==
    LET dead == {"EHOSTUNREACH", "ECONNRESET", "EBADF", "EPIPE"}
    IN  /\ Len(hist) <= max_attempt
        /\ Len(fresh) = Len(hist)
        /\ \A i \in 1..Len(hist) :
               /\ (hist[i] # "ok" /\ hist[i] \notin dead)
                      => /\ i = Len(hist)
                         /\ pc = "done"
                         /\ sp = "raise"
                         /\ result = Raise("socket.error", 0, hist[i])
                         /\ recvd = 0
               /\ (hist[i] \in dead /\ i < Len(hist))
                      => /\ ~fresh[i + 1].held
                         /\ fresh[i + 1].opened
               /\ (hist[i] \in dead /\ i = Len(hist))
                      => /\ sock = "None"
                         /\ fds = 0
                         /\ pc = "done" => /\ sp = "raise"
                                           /\ result = Raise("socket.error", 0, hist[i])

\* a broken pipe on a held socket, a reconnect, then a timeout that is raised
C17_Witness ==
    /\ hist = <<"EPIPE", "ETIMEDOUT">>
    /\ fresh[1].held
    /\ fresh[2].opened
    /\ sp = "raise"
    /\ result = Raise("socket.error", 0, "ETIMEDOUT")

\* the bytes a delivery plan hands over before its first read of no bytes
RECURSIVE DeliveredBeforeZero(_)
DeliveredBeforeZero(dels) ==
    IF dels = <<>> \/ Head(dels) = 0 THEN 0
    ELSE Head(dels) + DeliveredBeforeZero(Tail(dels))

\* C18: receive path framing.  On a held socket recv_packet raises a framing
\* error when its first read returns fewer than 4 bytes.  Otherwise, however
\* the bytes behind the prefix are delivered, it accumulates them in order,
\* reads nothing after the first read of no bytes, returns the packet exactly
\* when the accumulated count equals the declared length, and raises a
\* framing error when the count differs; a returned packet is the declared
\* number of bytes that follow the prefix.
C18_RecvPacketFraming ==
    (rp.status # "none" /\ rp.sk0 # "None") =>
        LET stream   == rp.stream
            readable == IF rp.dels = <<>> THEN Len(stream) ELSE rp.dels[1]
            first    == IF readable < Len(stream) THEN readable ELSE Len(stream)
            declared == stream[1] * 16777216 + stream[2] * 65536
                            + stream[3] * 256 + stream[4]
            got      == Len(rp.packet)
        IN  IF first < 4
            THEN rp.status = "short_prefix"
            ELSE /\ rp.status \in {"ok", "length_mismatch"}
                 /\ rp.status = "ok" <=> got = declared
                 /\ rp.packet = SubSeq(stream, 5, 4 + got)
                 /\ rp.rest = SubSeq(stream, 5 + got, Len(stream))
                 /\ (\E i \in 2..Len(rp.dels) : rp.dels[i] = 0)
                        => got <= DeliveredBeforeZero(Tail(rp.dels))
                 /\ rp.status = "ok" => rp.packet = SubSeq(stream, 5, 4 + declared)

\* a reply whose bytes behind the prefix came in two reads, returned whole
C18_Witness ==
    /\ rp.status = "ok"
    /\ rp.dels = <<4, 1>>
    /\ Len(rp.packet) > 1
    /\ result.kind = "return"

\* C19: after any unrecoverable socket error has reached the caller of the
\* binary transport (a non-retryable error of connect, sendall or recv, or a
\* connection-dead error once the attempts are used up or during receive),
\* the transport holds no socket.
C19_Original ==
    (result.kind = "raise" /\ result.exc = "socket.error") => sock = "None"

\* C20: no descriptor leak.  In every reachable state at most one socket
\* opened by the transport is open, and it is the one the transport holds;
\* connect() opens a socket only when none is held, in send_packet and when
\* the caller calls it.
C20_NoDescriptorLeak ==
    /\ fds \in {0, 1}
    /\ fds = 1 <=> sock # "None"
    /\ \A i \in 1..Len(fresh) : fresh[i].opened <=> ~fresh[i].held
    /\ \A i \in 2..Len(fresh) : fresh[i].opened => hist[i - 1] # "ok"
    /\ life.opened => (life.sock0 = "None" /\ life.fds0 = 0)

\* a held socket breaks, send_packet closes it and sends on a new one
C20_Witness ==
    /\ hist = <<"EPIPE", "ok">>
    /\ fresh[1].held
    /\ fresh[2].opened
    /\ sock = "open"
    /\ fds = 1

\* a step taken once send_packet has returned delivers nothing and leads on
\* to the end of the operation
ReceiveNeverResends ==
    pc \in {"recv", "reading"} =>
        /\ sent' = sent
        /\ pc' \in {"reading", "done"}

\* C21: retries happen only inside the send/connect step.  In one operation
\* the request frame is delivered at most once; from the moment send_packet
\* has returned, whatever fails while the reply is read or decoded (a socket
\* error of recv, connection-dead ones included, a framing error, an unknown
\* code, a decode failure), no step sends again: the operation goes on to its
\* end with the count of deliveries unchanged.
C21_RetryScope ==
    /\ [](sent <= 1)
    /\ [][ReceiveNeverResends]_vars

\* a delivered request whose reply fails with a connection reset during recv
C21_Witness ==
    /\ pc = "done"
    /\ sent = 1
    /\ recvd = 1
    /\ result = Raise("socket.error", 0, "ECONNRESET")
    /\ sock = "None"

\* C22: mismatched response codes are never silently ignored.  When the frame
\* a binary operation receives decodes to a known response code other than
\* the one paired with its request (2 for ping, 10 for get), the generic
\* error code 0 included, the operation raises and returns no normal value.
C22_Original ==
    ( /\ pc = "done"
      /\ op \in {"ping", "get"}
      /\ reply.decoded
      /\ reply.code \in {0, 2, 4, 6, 8, 10, 12, 14, 16, 18, 20, 22, 24, 26, 28}
      /\ reply.code # (IF op = "ping" THEN 2 ELSE 10) )
        => result.kind = "raise"

C24_DispatchTable ==
    /\ DOMAIN RESPCODE_TO_CLASS
           = {0, 2, 4, 6, 8, 10, 12, 14, 16, 18, 20, 22, 24, 26, 28}
    /\ \A c \in {6, 14, 22} : RESPCODE_TO_CLASS[c] = "None"
    /\ \A c \in {1, 3, 5, 7, 9, 11, 13, 15, 17, 19, 21, 23, 25, 27} :
           /\ c \notin DOMAIN RESPCODE_TO_CLASS
           /\ (c_pc = "decoded" /\ c_recv.packet[1] = c)
                  => /\ c_out.exc = "RiakngError"
                     /\ c_out.pbo.cls = "None"

\* a packet that starts with the delete request code 13 has been rejected
C24_Witness ==
    /\ c_pc = "decoded"
    /\ c_code = DEL_REQ
    /\ c_payload = <<>>
    /\ c_out.exc = "RiakngError"

\* C25: no partial results from the link walker.  When the multipart body
\* handed to walk_link is malformed (no boundary marker occurs in it, or the
\* closing delimiter is missing, of the body or of a phase nested in it),
\* the call raises; it returns no result.
C25_Original ==
    ( /\ w_pc = "walked"
      /\ \/ find(w_resp.text, <<"-", "-">> \o OuterBoundary, 0) = -1
         \/ find(w_resp.text, Closing(OuterBoundary), 0) = -1
         \/ \E i \in 1..Len(w_phases) :
                find(w_resp.text, Closing(InnerBoundary(i)), 0) = -1 )
        => w_result.kind = "raise"

\* C26: index entries are validated on write.  put() given an index entry
\* whose field name ends neither in _bin nor in _int rejects the call before
\* any network request is issued.
C26_Original ==
    (\E n \in 1..Len(i_indexes) :
         LastN(i_indexes[n].field, 4)
             \notin {<<"_", "b", "i", "n">>, <<"_", "i", "n", "t">>})
        => i_issued = 0
\* C27: response matching across a sequence of operations on one transport,
\* the server answering each delivered request with one whole frame: an
\* operation that reads from the socket reads no byte that was sent before
\* its own request was answered, and the packet recv_packet returns to it
\* is the server's reply to its own request.
C27_Original ==
    (pc = "done" /\ sent = 1 /\ rp.status # "none") =>
        LET own == encode_message(reply.code, reply.payload)
        IN  /\ Len(rp.rest) < Len(rp.stream) => rp.stream = own
            /\ rp.status = "ok" => rp.packet = <<reply.code>> \o reply.payload
\* C28: recv_packet consumes exactly one frame.  On a held socket whose
\* stream holds a complete frame followed by further bytes, the prefix read
\* whole and no read coming back empty, recv_packet returns the declared
\* number of bytes that follow the prefix and leaves every byte behind the
\* frame unread.
C28_Original ==
    (/\ rp.status # "none" /\ rp.sk0 # "None"
     /\ Len(rp.stream) > 4
     /\ Unpack32(Take(rp.stream, 4)) >= 0
     /\ Len(rp.stream) > 4 + Unpack32(Take(rp.stream, 4))
     /\ rp.dels # <<>> => rp.dels[1] >= 4
     /\ \A i \in 1..Len(rp.dels) : rp.dels[i] > 0)
        => LET L == Unpack32(Take(rp.stream, 4))
           IN  /\ rp.status = "ok"
               /\ rp.packet = SubSeq(rp.stream, 5, 4 + L)
               /\ rp.rest = SubSeq(rp.stream, 5 + L, Len(rp.stream))
\* C29: send_packet returns normally only after delivery.  For every
\* max_attempt from 0 up and every pattern of socket failures, when
\* send_packet has returned without raising, exactly one sendall has
\* succeeded and the transport holds a socket, so that the receive that
\* follows does not find the transport without one.
C29_Original ==
    /\ sp = "return" /\ pc \in {"recv", "reading"}
           => sent = 1 /\ sock = "open"
    /\ sp = "return" /\ pc = "done" /\ recvd = 1
           => sent = 1 /\ rp.status # "no_socket"
\* C30: every received frame is decoded or rejected with the protocol error.
\* Whatever length the prefix declares (negative, 0 or positive),
\* recv_packet followed by decode_packet either yields a code of the
\* response table or raises RiakngError, and a frame that declares length 0
\* is rejected with RiakngError.
C30_Original ==
    /\ c_pc = "decoded"
           => /\ c_out.exc \in {"", "RiakngError"}
              /\ c_out.exc = "" => c_out.code \in DOMAIN RESPCODE_TO_CLASS
    /\ (c_pc = "decoded" /\ Unpack32(Take(c_frame, 4)) = 0)
           => c_out.exc = "RiakngError"
\* the parser's outcome, one iteration at a step, is that of walk_link
ParseAgrees ==
    (w_pc = "walked" /\ w_resp # NoResponse) => w_result = http_walk_link(w_resp)
\* C31: the multipart parser terminates.  On every body and every non-empty
\* boundary, each loop iteration of _parse_linked_object_part leaves start
\* higher than it found it, each recursive call is made on a body shorter
\* than the body of the call that makes it, and a parser that has been
\* entered finishes, by returning or by raising.
C31_ParserTerminates ==
    /\ [](w_scan # NoScan => w_scan.to > w_scan.from)
    /\ [](\A i \in 2..Len(w_stack) :
               Len(w_stack[i].body) < Len(w_stack[i - 1].body))
    /\ (w_pc = "parsing") ~> (w_pc = "walked")

\* inside the recursive call for the second phase of a walk, after the
\* iteration that parsed its second document
C31_Witness ==
    /\ w_pc = "parsing"
    /\ Len(w_stack) = 2
    /\ Len(w_stack[1].parts) = 1
    /\ Len(w_stack[2].parts) = 2
    /\ w_scan.from > 0
    /\ w_scan.to > w_scan.from
====
